---- MODULE Spec2Model ----
(***************************************************************************)
(* ConfAI: the streaming-ingest session manager (app/routes/               *)
(* transcription.py) and the corpus registry (app/routes/admin.py) as a    *)
(* state machine.  Every request handler is a sequence of steps, one step  *)
(* per access to the shared state (the corpus folder, the context config   *)
(* file, the per-file locks); each request runs on its own worker.         *)
(***************************************************************************)
EXTENDS Integers, Sequences, FiniteSets, TLC

\* ------------------------------------------------------------ bounds ----
\* Model-scale stand-ins for the caps of append_content
\* (transcription.py:165 "100 * 1024" characters per call,
\*  transcription.py:187 "10 * 1024 * 1024" bytes per file) and of
\* upload_context_files (admin.py:889 "500 * 1024" bytes).
MaxAppendChars == 2
MaxFileBytes == 4
MaxUploadBytes == 2
\* How many requests are served (the clock advances by one with each request),
\* how many sessions are started, how many backups are kept per file name.
MaxClock == 4
MaxTokens == 2
MaxBackups == 1

Workers == {"w1", "w2"}

\* File names as the client sends them and as secure_filename returns them.
FileNames == {"a.txt", "b.md"}
RawNames == FileNames \cup {"../a.txt", "notes.pdf", ""}
Categories == {"transcript", "books", "background_info"}
Sources == {"svc"}

\* Request bodies: the texts a client appends (a text is a sequence of
\* characters).
NL == "\n"
Texts == {<<>>, <<"h">>, <<"w", "o">>, <<"x", "x", "x">>}

\* session_id values a client may send: "" (EmptySid), a well-formed id that
\* was never issued (BogusSid), and the ids issued so far (1, 2, ...).
EmptySid == 0
BogusSid == -1

\* ------------------------------------------------------- pure helpers ---
\* werkzeug secure_filename: strips path separators and leading dots.
SecureFilename(name) ==
    IF name = "../a.txt" THEN "a.txt" ELSE name

\* the extension after the last '.', lower-cased
Extension(name) ==
    CASE name \in {"a.txt", "../a.txt"} -> "txt"
      [] name = "b.md" -> "md"
      [] name = "notes.pdf" -> "pdf"
      [] OTHER -> ""

allowed_context_file(name) ==
    Extension(name) \in {"txt", "md"}

\* len(s.encode('utf-8')) / os.path.getsize: every model character is ASCII.
ByteLen(s) == Len(s)

\* The empty partial function (a dict with no key).
NoKeys == [k \in {} |-> k]

DictSet(d, k, v) ==
    [x \in (DOMAIN d) \cup {k} |-> IF x = k THEN v ELSE d[x]]

DictDel(d, k) ==
    [x \in (DOMAIN d) \ {k} |-> d[x]]

RECURSIVE IndexOf(_, _, _)
IndexOf(seq, x, i) ==
    IF i > Len(seq) THEN 0
    ELSE IF seq[i] = x THEN i
    ELSE IndexOf(seq, x, i + 1)

InList(seq, x) == IndexOf(seq, x, 1) # 0

\* list.remove(x): drops the first occurrence
ListRemove(seq, x) ==
    LET i == IndexOf(seq, x, 1)
    IN  IF i = 0 THEN seq
        ELSE [j \in 1..(Len(seq) - 1) |-> IF j < i THEN seq[j] ELSE seq[j + 1]]

Count(seq, x) == Cardinality({i \in 1..Len(seq) : seq[i] = x})

\* ------------------------------------------------------------- state ----
VARIABLES
    files,      \* corpus folder: file name -> content, for the files that exist
    backups,    \* file name -> contents of its _bak1, _bak2, ... files
    cfg,        \* data/context_config.json
    locks,      \* _file_locks: file name -> the worker holding its lock
    clock,      \* datetime.utcnow()
    nextTok,    \* the next fresh secrets.token_urlsafe value
    wk,         \* per worker: the request it serves and its local variables
    issued,     \* history: <<session id, file name>> returned by a successful start
    closed,     \* history: session ids whose finalize or abort succeeded
    appended,   \* history: session id -> the texts of its successful appends
    settings,   \* the settings table (app.models.Settings): key -> value
    svc,        \* the EmbeddingService instance: its attributes
    ck,         \* the running chunk_text call: its arguments and local variables
    index,      \* the ChromaDB store: the collection and the chunks it holds
    rx,         \* the running process_context_files call: its local variables
    asm,        \* the context a chat turn is assembling for the model
    sq,         \* the running search_context call: its local variables
    px,         \* the running _generate_perplexity call: its message lists
    turn,       \* the running stream_message generator and its provider stream
    db,         \* the chat_messages and token_usage tables
    mtime,      \* os.path.getmtime: file name -> the time of its last write
    watch       \* the running watch_file generator: its local variables

\* the state of the routes (transcription.py, admin.py context files) and the
\* state of the services
registry == <<files, backups, cfg, locks, clock, nextTok, wk, issued, closed, appended>>
service == <<settings, svc, ck, index, rx, asm, sq>>
chat == <<px, turn, db>>
tailing == <<mtime, watch>>
vars == <<registry, service, chat, tailing>>

\* Model-scale stand-ins for the chunk settings: EmbeddingService.CHUNK_SIZE
\* (512) and CHUNK_OVERLAP (128), the default overlap of initialize (200),
\* and the ranges save_embedding_settings accepts (chunk_size 200..4000,
\* chunk_overlap 0..500): the smallest accepted size is below the largest
\* accepted overlap, as in the code.
ClassChunkSize == 4
ClassChunkOverlap == 1
DefaultChunkOverlap == 2
MinChunkSize == 2
MaxChunkSize == 5
MaxChunkOverlap == 4
\* chunks_to_retrieve: its default (5) and the largest accepted value (20)
DefaultRetrieve == 1
MaxRetrieve == 2

\* EmbeddingService.__init__
NewService ==
    [embeddings_initialized |-> FALSE,
     chunk_size |-> ClassChunkSize, chunk_overlap |-> ClassChunkOverlap,
     chunks_to_retrieve |-> DefaultRetrieve,
     provider |-> "gemini", collection |-> "none"]

IdleChunker == [pc |-> "idle", text |-> <<>>, start |-> 0, chunks |-> <<>>]

\* data/chromadb before the first start: no collection
NoIndex == [exists |-> FALSE, items |-> {}]

\* no adapter call, no chat turn, empty tables
IdleFormat ==
    [pc |-> "idle", messages |-> <<>>, system_prompt |-> <<>>, formatted_messages |-> <<>>,
     input_tokens |-> 0]

\* no chat turn in progress
IdleAssemble ==
    [pc |-> "idle", mode |-> "", searched |-> FALSE, always_in_context |-> <<>>,
     semantic_results |-> {}, context |-> <<>>, context_files |-> <<>>,
     system_prompt |-> <<>>]

\* no search_context call in progress; stored is history: the chunks the
\* collection held when it was queried
IdleSearch ==
    [pc |-> "idle", top_k |-> 0, results |-> {}, context |-> <<>>, stored |-> {}]

IdleReindex ==
    [pc |-> "idle", cleared |-> "", file_categories |-> <<>>, i |-> 0, result |-> FALSE,
     pre |-> NoIndex]

\* a fresh process: no settings row, the service constructed, nothing running
ServiceInit ==
    /\ settings = [k \in {} |-> 0]
    /\ svc = NewService
    /\ ck = IdleChunker
    /\ index = NoIndex
    /\ rx = IdleReindex
    /\ asm = IdleAssemble
    /\ sq = IdleSearch

\* usage_data as the adapters create it
NoUsage ==
    [captured |-> FALSE, input_tokens |-> 0, output_tokens |-> 0,
     cache_creation_tokens |-> 0, cache_read_tokens |-> 0]

NoScript == [fault |-> "none", frames |-> <<>>, final_usage |-> FALSE]

\* no generator: the locals of generate() and of the adapter's generate_stream,
\* the events written to the client, and what is remembered of the turn
\* (the client gone, with tokens still to come; the sequence exhausted; the
\* counts estimated)
IdleTurn ==
    [pc |-> "idle", n |-> 0, current_model |-> "", script |-> NoScript, kind |-> "",
     gen |-> "fresh", i |-> 0, pending |-> FALSE, chunk |-> <<>>, output_chars |-> 0,
     usage_data |-> NoUsage, full_response |-> <<>>, message_id |-> 0, events |-> <<>>,
     connected |-> TRUE, left |-> FALSE, drained |-> FALSE, estimated |-> FALSE]
EmptyDb == [messages |-> <<>>, usage |-> <<>>]

ChatInit ==
    /\ px = IdleFormat
    /\ turn = IdleTurn
    /\ db = EmptyDb

\* load_context_config of a missing file, with the defaults the handlers add
EmptyConfig ==
    [base_context |-> <<>>,
     vectorized_files |-> [c \in Categories |-> <<>>],
     base_context_types |-> NoKeys,
     streaming_sessions |-> NoKeys]

NoResp == [status |-> 0]
\* an open file: at its path, renamed to backup number n, or unlinked
NoHandle == [at |-> "none", n |-> 0]
OpenHandle == [at |-> "path", n |-> 0]
NoReq == [op |-> "none"]
NoPre == [files |-> NoKeys, cfg |-> EmptyConfig, backups |-> NoKeys, closed |-> {}]

IdleWorker ==
    [pc |-> "idle", req |-> NoReq, config |-> EmptyConfig, filename |-> "",
     i |-> 0, handle |-> NoHandle, uploaded |-> <<>>, resp |-> NoResp, pre |-> NoPre]

\* history: the shared state as it was when the request was taken
Snapshot == [files |-> files, cfg |-> cfg, backups |-> backups, closed |-> closed]

AllIdle == \A w \in Workers : wk[w].pc = "idle"

\* the worker record at the start of a request
Accept(req, pc) ==
    [IdleWorker EXCEPT !.pc = pc, !.req = req, !.pre = Snapshot]

\* the worker record when the handler returns
Reply(w, resp) ==
    [wk[w] EXCEPT !.pc = "done", !.resp = resp]

RegistryInit ==
    /\ files = NoKeys
    /\ backups = [f \in FileNames |-> <<>>]
    /\ cfg = EmptyConfig
    /\ locks = [f \in FileNames |-> "none"]
    /\ clock = 0
    /\ nextTok = 1
    /\ wk = [w \in Workers |-> IdleWorker]
    /\ issued = {}
    /\ closed = {}
    /\ appended = NoKeys

\* no watcher is connected; no file was written yet
IdleWatch ==
    [pc |-> "idle", filename |-> "", last_char_count |-> 0, last_mtime |-> 0,
     current_mtime |-> 0, content |-> <<>>, type |-> "none", sent |-> <<>>,
     events |-> 0, copy |-> <<>>, began |-> 0]

LiveInit ==
    /\ mtime = [f \in FileNames |-> 0]
    /\ watch = IdleWatch

\* the file system stamps a file at each write (a later write, a later time)
Stamp(f) == [mtime EXCEPT ![f] = @ + 1]

Init == RegistryInit /\ ServiceInit /\ ChatInit /\ LiveInit

\* the session ids a request may carry
SidInputs == {EmptySid, BogusSid} \cup (1..(nextTok - 1))

\* "for fname, session_data in streaming_sessions.items(): if ... == session_id"
FindSession(sessions, sid) ==
    LET hits == {f \in DOMAIN sessions : sessions[f].session_id = sid}
    IN  IF hits = {} THEN "" ELSE CHOOSE f \in hits : TRUE

\* ----------------------------------------------------- start_stream ----
BeginStart(w, names) ==
    /\ wk[w].pc = "idle"
    /\ clock < MaxClock
    /\ clock' = clock + 1
    /\ nextTok <= MaxTokens
    /\ \E raw \in names, src \in Sources :
        LET name == SecureFilename(raw)
            req == [op |-> "start", filename |-> raw, source_identifier |-> src]
        IN  wk' = [wk EXCEPT ![w] =
                IF raw = "" \/ ~allowed_context_file(name)
                THEN [Accept(req, "done") EXCEPT !.resp = [status |-> 400]]
                ELSE [Accept(req, "start_load") EXCEPT !.filename = name]]
    /\ UNCHANGED <<files, backups, cfg, locks, nextTok, issued, closed, appended, service, chat, tailing>>

StartLoad(w) ==
    /\ wk[w].pc = "start_load"
    /\ wk' = [wk EXCEPT ![w].pc = "start_exists", ![w].config = cfg]
    /\ UNCHANGED <<files, backups, cfg, locks, clock, nextTok, issued, closed, appended, service, chat, tailing>>

\* fault: the resume test never finds the session
NeverStreaming(config, f) == FALSE

\* "if filename in config.get('streaming_sessions', {}):"
AlreadyStreaming(config, f) == f \in DOMAIN config.streaming_sessions

\* fault: the existence test never sees the file
NeverExists(f) == FALSE

\* "if os.path.exists(filepath):"
FileExists(f) == f \in DOMAIN files

StartExists(w) ==
    /\ wk[w].pc = "start_exists"
    /\ LET f == wk[w].filename
           sessions == wk[w].config.streaming_sessions
       IN  IF FileExists(f)
           THEN IF AlreadyStreaming(wk[w].config, f)
                THEN /\ wk' = [wk EXCEPT ![w] = Reply(w,
                            [status |-> 200, session_id |-> sessions[f].session_id,
                             filename |-> f, resumed |-> TRUE])]
                     /\ issued' = issued \cup {<<sessions[f].session_id, f>>}
                ELSE /\ wk' = [wk EXCEPT ![w] = Reply(w, [status |-> 409])]
                     /\ issued' = issued
           ELSE /\ wk' = [wk EXCEPT ![w].pc = "start_create"]
                /\ issued' = issued
    /\ UNCHANGED <<files, backups, cfg, locks, clock, nextTok, closed, appended, service, chat, tailing>>

\* open(filepath, 'w').write(''): creates the file, or truncates it in place
StartCreate(w) ==
    /\ wk[w].pc = "start_create"
    /\ files' = DictSet(files, wk[w].filename, <<>>)
    /\ mtime' = Stamp(wk[w].filename)
    /\ wk' = [wk EXCEPT ![w].pc = "start_save"]
    /\ UNCHANGED <<backups, cfg, locks, clock, nextTok, issued, closed, appended, service, chat, watch>>

NewSession(sid, now, src) ==
    [session_id |-> sid, started_at |-> now, last_updated |-> now,
     source_identifier |-> src]

StartSave(w) ==
    /\ wk[w].pc = "start_save"
    /\ LET f == wk[w].filename
           config == [wk[w].config EXCEPT !.streaming_sessions =
                        DictSet(@, f, NewSession(nextTok, clock, wk[w].req.source_identifier))]
       IN  /\ cfg' = config
           /\ wk' = [wk EXCEPT ![w] = [Reply(w,
                    [status |-> 201, session_id |-> nextTok, filename |-> f,
                     resumed |-> FALSE]) EXCEPT !.config = config]]
           /\ issued' = issued \cup {<<nextTok, f>>}
    /\ nextTok' = nextTok + 1
    /\ appended' = DictSet(appended, nextTok, <<>>)
    /\ UNCHANGED <<files, backups, locks, clock, closed, service, chat, tailing>>

\* ---------------------------------------------------- append_content ---
BeginAppend(w, texts) ==
    /\ wk[w].pc = "idle"
    /\ clock < MaxClock
    /\ clock' = clock + 1
    /\ \E sid \in SidInputs, content \in texts :
        LET req == [op |-> "append", session_id |-> sid, content |-> content]
        IN  wk' = [wk EXCEPT ![w] =
                IF sid = EmptySid \/ content = <<>>
                THEN [Accept(req, "done") EXCEPT !.resp = [status |-> 400]]
                ELSE IF Len(content) > MaxAppendChars
                THEN [Accept(req, "done") EXCEPT !.resp = [status |-> 413]]
                ELSE Accept(req, "append_load")]
    /\ UNCHANGED <<files, backups, cfg, locks, nextTok, issued, closed, appended, service, chat, tailing>>

AppendLoad(w) ==
    /\ wk[w].pc = "append_load"
    /\ LET f == FindSession(cfg.streaming_sessions, wk[w].req.session_id)
       IN  wk' = [wk EXCEPT ![w] =
                IF f = ""
                THEN [Reply(w, [status |-> 404]) EXCEPT !.config = cfg]
                ELSE [wk[w] EXCEPT !.pc = "append_size", !.config = cfg, !.filename = f]]
    /\ UNCHANGED <<files, backups, cfg, locks, clock, nextTok, issued, closed, appended, service, chat, tailing>>

\* "current_size + len(content.encode('utf-8')) > 10 * 1024 * 1024"
ExceedsFileLimit(current_size, content) ==
    current_size + ByteLen(content) > MaxFileBytes

AppendSize(w) ==
    /\ wk[w].pc = "append_size"
    /\ LET f == wk[w].filename
       IN  wk' = [wk EXCEPT ![w] =
                IF f \in DOMAIN files /\ ExceedsFileLimit(ByteLen(files[f]), wk[w].req.content)
                THEN Reply(w, [status |-> 413])
                ELSE [wk[w] EXCEPT !.pc = "append_lock"]]
    /\ UNCHANGED <<files, backups, cfg, locks, clock, nextTok, issued, closed, appended, service, chat, tailing>>

\* fault: a lock that is always granted
AlwaysFree(f) == TRUE

\* "with file_lock:" blocks until the lock of this file name is free
LockFree(f) == locks[f] = "none"

\* "with open(filepath, 'a')": creates the file when it is missing
AppendLock(w) ==
    /\ wk[w].pc = "append_lock"
    /\ LockFree(wk[w].filename)
    /\ locks' = [locks EXCEPT ![wk[w].filename] = w]
    /\ files' = IF wk[w].filename \in DOMAIN files THEN files
                ELSE DictSet(files, wk[w].filename, <<>>)
    /\ wk' = [wk EXCEPT ![w].pc = "append_write", ![w].i = 1, ![w].handle = OpenHandle]
    /\ UNCHANGED <<backups, cfg, clock, nextTok, issued, closed, appended, service, chat, tailing>>

\* fault: the text is written without the line break
RecordNoBreak(content) == content

\* what one append call writes: "f.write(content + '\n')"
Record(content) == content \o <<NL>>

\* one flush of the buffered writer; an unlinked file takes the bytes with it
AppendWrite(w) ==
    /\ wk[w].pc = "append_write"
    /\ LET f == wk[w].filename
           h == wk[w].handle
           rec == Record(wk[w].req.content)
       IN  /\ files' = IF h.at = "path"
                       THEN [files EXCEPT ![f] = Append(@, rec[wk[w].i])]
                       ELSE files
           /\ backups' = IF h.at = "backup"
                         THEN [backups EXCEPT ![f][h.n] = Append(@, rec[wk[w].i])]
                         ELSE backups
           /\ mtime' = IF h.at = "path" THEN Stamp(f) ELSE mtime
           /\ wk' = [wk EXCEPT ![w].i = @ + 1,
                               ![w].pc = IF wk[w].i = Len(rec) THEN "append_unlock"
                                         ELSE "append_write"]
    /\ UNCHANGED <<cfg, locks, clock, nextTok, issued, closed, appended, service, chat, watch>>

AppendUnlock(w) ==
    /\ wk[w].pc = "append_unlock"
    /\ locks' = [locks EXCEPT ![wk[w].filename] = "none"]
    /\ wk' = [wk EXCEPT ![w].pc = "append_save", ![w].handle = NoHandle]
    /\ UNCHANGED <<files, backups, cfg, clock, nextTok, issued, closed, appended, service, chat, tailing>>

AppendSave(w) ==
    /\ wk[w].pc = "append_save"
    /\ LET f == wk[w].filename
           config == [wk[w].config EXCEPT !.streaming_sessions[f].last_updated = clock]
       IN  /\ cfg' = config
           /\ wk' = [wk EXCEPT ![w].pc = "append_read", ![w].config = config]
    /\ UNCHANGED <<files, backups, locks, clock, nextTok, issued, closed, appended, service, chat, tailing>>

\* "total_chars = len(f.read())"; a missing file raises and the handler answers 500
AppendRead(w) ==
    /\ wk[w].pc = "append_read"
    /\ LET f == wk[w].filename
           sid == wk[w].req.session_id
       IN  IF f \in DOMAIN files
           THEN /\ wk' = [wk EXCEPT ![w] = Reply(w,
                        [status |-> 200, session_id |-> sid, total_chars |-> Len(files[f]),
                         last_updated |-> wk[w].config.streaming_sessions[f].last_updated])]
                /\ appended' = [appended EXCEPT ![sid] = Append(@, wk[w].req.content)]
           ELSE /\ wk' = [wk EXCEPT ![w] = Reply(w, [status |-> 500])]
                /\ appended' = appended
    /\ UNCHANGED <<files, backups, cfg, locks, clock, nextTok, issued, closed, service, chat, tailing>>

\* ------------------------------------------------- get_stream_status ---
BeginStatus(w) ==
    /\ wk[w].pc = "idle"
    /\ clock < MaxClock
    /\ clock' = clock + 1
    /\ \E sid \in SidInputs \ {EmptySid} :
        wk' = [wk EXCEPT ![w] = Accept([op |-> "status", session_id |-> sid], "status_load")]
    /\ UNCHANGED <<files, backups, cfg, locks, nextTok, issued, closed, appended, service, chat, tailing>>

StatusLoad(w) ==
    /\ wk[w].pc = "status_load"
    /\ LET f == FindSession(cfg.streaming_sessions, wk[w].req.session_id)
       IN  wk' = [wk EXCEPT ![w] =
                IF f = ""
                THEN [Reply(w, [status |-> 404]) EXCEPT !.config = cfg]
                ELSE [wk[w] EXCEPT !.pc = "status_read", !.config = cfg, !.filename = f]]
    /\ UNCHANGED <<files, backups, cfg, locks, clock, nextTok, issued, closed, appended, service, chat, tailing>>

StatusRead(w) ==
    /\ wk[w].pc = "status_read"
    /\ LET f == wk[w].filename
           total_chars == IF f \in DOMAIN files THEN Len(files[f]) ELSE 0
           session_data == wk[w].config.streaming_sessions[f]
       IN  wk' = [wk EXCEPT ![w] = Reply(w,
                [status |-> 200, session_id |-> wk[w].req.session_id, filename |-> f,
                 started_at |-> session_data.started_at,
                 last_updated |-> session_data.last_updated,
                 total_chars |-> total_chars, estimated_tokens |-> total_chars \div 4])]
    /\ UNCHANGED <<files, backups, cfg, locks, clock, nextTok, issued, closed, appended, service, chat, tailing>>

\* --------------------------------------------------- finalize_stream ---
BeginFinalize(w) ==
    /\ wk[w].pc = "idle"
    /\ clock < MaxClock
    /\ clock' = clock + 1
    /\ \E sid \in SidInputs :
        LET req == [op |-> "finalize", session_id |-> sid]
        IN  wk' = [wk EXCEPT ![w] =
                IF sid = EmptySid
                THEN [Accept(req, "done") EXCEPT !.resp = [status |-> 400]]
                ELSE Accept(req, "finalize_load")]
    /\ UNCHANGED <<files, backups, cfg, locks, nextTok, issued, closed, appended, service, chat, tailing>>

FinalizeLoad(w) ==
    /\ wk[w].pc = "finalize_load"
    /\ LET f == FindSession(cfg.streaming_sessions, wk[w].req.session_id)
       IN  wk' = [wk EXCEPT ![w] =
                IF f = ""
                THEN [Reply(w, [status |-> 404]) EXCEPT !.config = cfg]
                ELSE [wk[w] EXCEPT !.pc = "finalize_read", !.config = cfg, !.filename = f]]
    /\ UNCHANGED <<files, backups, cfg, locks, clock, nextTok, issued, closed, appended, service, chat, tailing>>

\* "Get file stats before finalizing"
FinalizeRead(w) ==
    /\ wk[w].pc = "finalize_read"
    /\ wk' = [wk EXCEPT ![w].pc = "finalize_save",
                        ![w].i = IF wk[w].filename \in DOMAIN files
                                 THEN Len(files[wk[w].filename]) ELSE 0]
    /\ UNCHANGED <<files, backups, cfg, locks, clock, nextTok, issued, closed, appended, service, chat, tailing>>

\* the config finalize_stream saves (transcription.py:300-312)
FinalizedConfig(config, f) ==
    [config EXCEPT
        !.streaming_sessions = DictDel(@, f),
        !.base_context = IF InList(@, f) THEN @ ELSE Append(@, f),
        !.base_context_types = DictSet(@, f, "transcript")]

FinalizeSave(w) ==
    /\ wk[w].pc = "finalize_save"
    /\ LET f == wk[w].filename
           config == FinalizedConfig(wk[w].config, f)
       IN  /\ cfg' = config
           /\ wk' = [wk EXCEPT ![w] = [Reply(w,
                    [status |-> 200, filename |-> f, target |-> "base_context",
                     total_chars |-> wk[w].i]) EXCEPT !.config = config]]
    /\ closed' = closed \cup {wk[w].req.session_id}
    /\ UNCHANGED <<files, backups, locks, clock, nextTok, issued, appended, service, chat, tailing>>

\* ------------------------------------------------------ abort_stream ---
BeginAbort(w) ==
    /\ wk[w].pc = "idle"
    /\ clock < MaxClock
    /\ clock' = clock + 1
    /\ \E sid \in SidInputs \ {EmptySid}, delete_file \in BOOLEAN :
        wk' = [wk EXCEPT ![w] =
            Accept([op |-> "abort", session_id |-> sid, delete_file |-> delete_file],
                   "abort_load")]
    /\ UNCHANGED <<files, backups, cfg, locks, nextTok, issued, closed, appended, service, chat, tailing>>

AbortLoad(w) ==
    /\ wk[w].pc = "abort_load"
    /\ LET f == FindSession(cfg.streaming_sessions, wk[w].req.session_id)
       IN  wk' = [wk EXCEPT ![w] =
                IF f = ""
                THEN [Reply(w, [status |-> 404]) EXCEPT !.config = cfg]
                ELSE [wk[w] EXCEPT !.pc = IF wk[w].req.delete_file THEN "abort_remove"
                                          ELSE "abort_save",
                                   !.config = cfg, !.filename = f]]
    /\ UNCHANGED <<files, backups, cfg, locks, clock, nextTok, issued, closed, appended, service, chat, tailing>>

\* a writer that has the removed file open keeps writing to the unlinked file
Unlink(workers, f) ==
    [v \in Workers |->
        IF workers[v].handle.at = "path" /\ workers[v].filename = f
        THEN [workers[v] EXCEPT !.handle = [at |-> "unlinked", n |-> 0]]
        ELSE workers[v]]

\* a writer that has the renamed file open keeps writing to the backup
Renamed(workers, f, n) ==
    [v \in Workers |->
        IF workers[v].handle.at = "path" /\ workers[v].filename = f
        THEN [workers[v] EXCEPT !.handle = [at |-> "backup", n |-> n]]
        ELSE workers[v]]

\* "if os.path.exists(filepath): os.remove(filepath); file_deleted = True"
AbortRemove(w) ==
    /\ wk[w].pc = "abort_remove"
    /\ LET f == wk[w].filename
           file_deleted == f \in DOMAIN files
       IN  /\ files' = DictDel(files, f)
           /\ wk' = [Unlink(wk, f) EXCEPT ![w].pc = "abort_save",
                                          ![w].i = IF file_deleted THEN 1 ELSE 0]
    /\ UNCHANGED <<backups, cfg, locks, clock, nextTok, issued, closed, appended, service, chat, tailing>>

\* the config abort_stream saves (transcription.py:358-372)
AbortedConfig(config, f, delete_file) ==
    [config EXCEPT
        !.streaming_sessions = DictDel(@, f),
        !.base_context = IF delete_file \/ InList(@, f) THEN @ ELSE Append(@, f)]

AbortSave(w) ==
    /\ wk[w].pc = "abort_save"
    /\ LET f == wk[w].filename
           config == AbortedConfig(wk[w].config, f, wk[w].req.delete_file)
       IN  /\ cfg' = config
           /\ wk' = [wk EXCEPT ![w] = [Reply(w,
                    [status |-> 200, session_id |-> wk[w].req.session_id, filename |-> f,
                     file_deleted |-> (wk[w].i = 1)]) EXCEPT !.config = config]]
    /\ closed' = closed \cup {wk[w].req.session_id}
    /\ UNCHANGED <<files, backups, locks, clock, nextTok, issued, appended, service, chat, tailing>>

\* ------------------------------------------- corpus registry (admin) ---
Targets == {"base_context", "vectorized:transcript", "vectorized:books",
            "vectorized:background_info"}
TargetInputs == Targets \cup {"trash"}

\* "category = target.split(':')[1]"
CategoryOf(target) ==
    CASE target = "vectorized:transcript" -> "transcript"
      [] target = "vectorized:books" -> "books"
      [] target = "vectorized:background_info" -> "background_info"
      [] OTHER -> ""

\* the files an upload request may carry, and the requests (lists of files)
UploadFiles ==
    {[filename |-> "a.txt", content |-> <<"u">>],
     [filename |-> "b.md", content |-> <<"u">>],
     [filename |-> "notes.pdf", content |-> <<"u">>],
     [filename |-> "a.txt", content |-> <<"v", "v", "v">>]}
MaxBatch == 2
Batches ==
    UNION {[1..n -> UploadFiles] : n \in 0..MaxBatch}

\* bound: the uploads of this request leave at most MaxBackups backups per name
BackupRoom(batch) ==
    \A f \in FileNames :
        LET n == Cardinality({k \in 1..Len(batch) : SecureFilename(batch[k].filename) = f})
        IN  n > 0 => Len(backups[f]) + n - (IF f \in DOMAIN files THEN 0 ELSE 1) <= MaxBackups

\* ---------------------------- upload_context_files / public_upload_context
BeginUpload(w, batches, targets) ==
    /\ wk[w].pc = "idle"
    /\ clock < MaxClock
    /\ clock' = clock + 1
    /\ \E batch \in batches, target \in targets :
        LET req == [op |-> "upload", files |-> batch, target |-> target, public |-> FALSE]
        IN  /\ BackupRoom(batch)
            /\ wk' = [wk EXCEPT ![w] =
                IF batch = <<>> \/ target \notin Targets
                THEN [Accept(req, "done") EXCEPT !.resp = [status |-> 400]]
                ELSE [Accept(req, "upload_check") EXCEPT !.i = 1]]
    /\ UNCHANGED <<files, backups, cfg, locks, nextTok, issued, closed, appended, service, chat, tailing>>

BeginPublicUpload(w, batches) ==
    /\ wk[w].pc = "idle"
    /\ clock < MaxClock
    /\ clock' = clock + 1
    /\ \E batch \in {b \in batches : Len(b) = 1} :
        LET req == [op |-> "public_upload", files |-> batch, target |-> "base_context",
                    public |-> TRUE]
        IN  /\ BackupRoom(batch)
            /\ wk' = [wk EXCEPT ![w] =
                IF ~allowed_context_file(batch[1].filename)
                THEN [Accept(req, "done") EXCEPT !.resp = [status |-> 400]]
                ELSE [Accept(req, "upload_check") EXCEPT !.i = 1]]
    /\ UNCHANGED <<files, backups, cfg, locks, nextTok, issued, closed, appended, service, chat, tailing>>

\* one turn of "for file in files:" up to the backup of the existing file
UploadCheck(w) ==
    /\ wk[w].pc = "upload_check"
    /\ LET req == wk[w].req
           i == wk[w].i
       IN  IF i > Len(req.files)
           THEN /\ wk' = [wk EXCEPT ![w].pc = "upload_load"]
                /\ UNCHANGED <<files, backups>>
           ELSE LET file == req.files[i]
                    filename == SecureFilename(file.filename)
                IN  IF ~allowed_context_file(file.filename)
                    THEN /\ wk' = [wk EXCEPT ![w] = Reply(w, [status |-> 400])]
                         /\ UNCHANGED <<files, backups>>
                    ELSE IF ~req.public /\ ByteLen(file.content) > MaxUploadBytes
                    THEN /\ wk' = [wk EXCEPT ![w] = Reply(w, [status |-> 400])]
                         /\ UNCHANGED <<files, backups>>
                    ELSE IF filename \in DOMAIN files
                    THEN \* os.rename(filepath, backup_filepath)
                         /\ backups' = [backups EXCEPT ![filename] = Append(@, files[filename])]
                         /\ files' = DictDel(files, filename)
                         /\ wk' = [Renamed(wk, filename, Len(backups[filename]) + 1)
                                     EXCEPT ![w].pc = "upload_store", ![w].filename = filename]
                    ELSE /\ wk' = [wk EXCEPT ![w].pc = "upload_store", ![w].filename = filename]
                         /\ UNCHANGED <<files, backups>>
    /\ UNCHANGED <<cfg, locks, clock, nextTok, issued, closed, appended, service, chat, tailing>>

\* "file.save(filepath); uploaded_files.append(filename)"
UploadStore(w) ==
    /\ wk[w].pc = "upload_store"
    /\ files' = DictSet(files, wk[w].filename, wk[w].req.files[wk[w].i].content)
    /\ mtime' = Stamp(wk[w].filename)
    /\ wk' = [wk EXCEPT ![w].pc = "upload_check", ![w].i = @ + 1,
                        ![w].uploaded = Append(@, wk[w].filename)]
    /\ UNCHANGED <<backups, cfg, locks, clock, nextTok, issued, closed, appended, service, chat, watch>>

UploadLoad(w) ==
    /\ wk[w].pc = "upload_load"
    /\ wk' = [wk EXCEPT ![w].pc = "upload_save", ![w].config = cfg]
    /\ UNCHANGED <<files, backups, cfg, locks, clock, nextTok, issued, closed, appended, service, chat, tailing>>

\* one turn of "for filename in uploaded_files:" (admin.py:934-944)
PlaceUploaded(config, filename, target) ==
    IF target = "base_context"
    THEN [config EXCEPT !.base_context = IF InList(@, filename) THEN @ ELSE Append(@, filename)]
    ELSE [config EXCEPT !.vectorized_files[CategoryOf(target)] =
                            IF InList(@, filename) THEN @ ELSE Append(@, filename)]

RECURSIVE PlaceAll(_, _, _, _)
PlaceAll(config, uploaded, target, k) ==
    IF k > Len(uploaded) THEN config
    ELSE PlaceAll(PlaceUploaded(config, uploaded[k], target), uploaded, target, k + 1)

UploadSave(w) ==
    /\ wk[w].pc = "upload_save"
    /\ LET config == PlaceAll(wk[w].config, wk[w].uploaded, wk[w].req.target, 1)
       IN  /\ cfg' = config
           /\ wk' = [wk EXCEPT ![w] = [Reply(w,
                    [status |-> 200, files |-> wk[w].uploaded, target |-> wk[w].req.target])
                        EXCEPT !.config = config]]
    /\ UNCHANGED <<files, backups, locks, clock, nextTok, issued, closed, appended, service, chat, tailing>>

\* ------------------------------------------------ delete_context_file ---
BeginDelete(w, names) ==
    /\ wk[w].pc = "idle"
    /\ clock < MaxClock
    /\ clock' = clock + 1
    /\ \E raw \in names \ {""} :
        wk' = [wk EXCEPT ![w] =
            [Accept([op |-> "delete", filename |-> raw], "delete_exists")
                EXCEPT !.filename = SecureFilename(raw)]]
    /\ UNCHANGED <<files, backups, cfg, locks, nextTok, issued, closed, appended, service, chat, tailing>>

DeleteExists(w) ==
    /\ wk[w].pc = "delete_exists"
    /\ wk' = [wk EXCEPT ![w] =
            IF wk[w].filename \notin DOMAIN files
            THEN Reply(w, [status |-> 404])
            ELSE [wk[w] EXCEPT !.pc = "delete_load"]]
    /\ UNCHANGED <<files, backups, cfg, locks, clock, nextTok, issued, closed, appended, service, chat, tailing>>

\* fault: the ownership test never finds a session
NeverOwned(config, f) == FALSE

\* "if filename in streaming_sessions: return ..., 409"
OwnedByStream(config, f) == f \in DOMAIN config.streaming_sessions

DeleteLoad(w) ==
    /\ wk[w].pc = "delete_load"
    /\ wk' = [wk EXCEPT ![w] =
            IF OwnedByStream(cfg, wk[w].filename)
            THEN [Reply(w, [status |-> 409]) EXCEPT !.config = cfg]
            ELSE [wk[w] EXCEPT !.pc = "delete_remove", !.config = cfg]]
    /\ UNCHANGED <<files, backups, cfg, locks, clock, nextTok, issued, closed, appended, service, chat, tailing>>

\* "os.remove(filepath)": raises when the file is gone, answered 500
DeleteRemove(w) ==
    /\ wk[w].pc = "delete_remove"
    /\ LET f == wk[w].filename
       IN  IF f \in DOMAIN files
           THEN /\ files' = DictDel(files, f)
                /\ wk' = [Unlink(wk, f) EXCEPT ![w].pc = "delete_save"]
           ELSE /\ files' = files
                /\ wk' = [wk EXCEPT ![w] = Reply(w, [status |-> 500])]
    /\ UNCHANGED <<backups, cfg, locks, clock, nextTok, issued, closed, appended, service, chat, tailing>>

\* "Remove from config (check all locations)" (admin.py:983-996)
Unplaced(config, f) ==
    [config EXCEPT
        !.base_context = ListRemove(@, f),
        !.vectorized_files = [c \in Categories |-> ListRemove(@[c], f)]]

DeleteSave(w) ==
    /\ wk[w].pc = "delete_save"
    /\ LET config == Unplaced(wk[w].config, wk[w].filename)
           modified == config # wk[w].config
       IN  /\ cfg' = IF modified THEN config ELSE cfg
           /\ wk' = [wk EXCEPT ![w] = [Reply(w, [status |-> 200]) EXCEPT !.config = config]]
    /\ UNCHANGED <<files, backups, locks, clock, nextTok, issued, closed, appended, service, chat, tailing>>

\* -------------------------------------------------- move_context_file ---
BeginMove(w, names, targets) ==
    /\ wk[w].pc = "idle"
    /\ clock < MaxClock
    /\ clock' = clock + 1
    /\ \E raw \in names \ {""}, target \in targets :
        wk' = [wk EXCEPT ![w] =
            [Accept([op |-> "move", filename |-> raw, target |-> target], "move_exists")
                EXCEPT !.filename = SecureFilename(raw)]]
    /\ UNCHANGED <<files, backups, cfg, locks, nextTok, issued, closed, appended, service, chat, tailing>>

MoveExists(w) ==
    /\ wk[w].pc = "move_exists"
    /\ wk' = [wk EXCEPT ![w] =
            IF wk[w].filename \notin DOMAIN files
            THEN Reply(w, [status |-> 404])
            ELSE IF wk[w].req.target \notin Targets
            THEN Reply(w, [status |-> 400])
            ELSE [wk[w] EXCEPT !.pc = "move_load"]]
    /\ UNCHANGED <<files, backups, cfg, locks, clock, nextTok, issued, closed, appended, service, chat, tailing>>

MoveLoad(w) ==
    /\ wk[w].pc = "move_load"
    /\ wk' = [wk EXCEPT ![w] =
            IF OwnedByStream(cfg, wk[w].filename)
            THEN [Reply(w, [status |-> 409]) EXCEPT !.config = cfg]
            ELSE [wk[w] EXCEPT !.pc = "move_save", !.config = cfg]]
    /\ UNCHANGED <<files, backups, cfg, locks, clock, nextTok, issued, closed, appended, service, chat, tailing>>

\* "Remove from current location ... Add to new location" (admin.py:1046-1060)
Moved(config, f, target) ==
    LET removed == [config EXCEPT
                        !.base_context = ListRemove(@, f),
                        !.vectorized_files = [c \in Categories |-> ListRemove(@[c], f)]]
    IN  IF target = "base_context"
        THEN [removed EXCEPT !.base_context = Append(@, f)]
        ELSE [removed EXCEPT !.vectorized_files[CategoryOf(target)] = Append(@, f)]

MoveSave(w) ==
    /\ wk[w].pc = "move_save"
    /\ LET config == Moved(wk[w].config, wk[w].filename, wk[w].req.target)
       IN  /\ cfg' = config
           /\ wk' = [wk EXCEPT ![w] = [Reply(w,
                    [status |-> 200, target |-> wk[w].req.target]) EXCEPT !.config = config]]
    /\ UNCHANGED <<files, backups, locks, clock, nextTok, issued, closed, appended, service, chat, tailing>>

\* ----------------------------------------- set_base_context_file_type ---
TypeInputs == Categories \cup {"other"}

BeginSetType(w, names) ==
    /\ wk[w].pc = "idle"
    /\ clock < MaxClock
    /\ clock' = clock + 1
    /\ \E raw \in names \ {""}, file_type \in TypeInputs :
        wk' = [wk EXCEPT ![w] =
            [Accept([op |-> "set_type", filename |-> raw, type |-> file_type], "type_exists")
                EXCEPT !.filename = SecureFilename(raw)]]
    /\ UNCHANGED <<files, backups, cfg, locks, nextTok, issued, closed, appended, service, chat, tailing>>

TypeExists(w) ==
    /\ wk[w].pc = "type_exists"
    /\ wk' = [wk EXCEPT ![w] =
            IF wk[w].filename \notin DOMAIN files
            THEN Reply(w, [status |-> 404])
            ELSE IF wk[w].req.type \notin Categories
            THEN Reply(w, [status |-> 400])
            ELSE [wk[w] EXCEPT !.pc = "type_load"]]
    /\ UNCHANGED <<files, backups, cfg, locks, clock, nextTok, issued, closed, appended, service, chat, tailing>>

TypeLoad(w) ==
    /\ wk[w].pc = "type_load"
    /\ wk' = [wk EXCEPT ![w] =
            IF ~InList(cfg.base_context, wk[w].filename)
            THEN [Reply(w, [status |-> 400]) EXCEPT !.config = cfg]
            ELSE [wk[w] EXCEPT !.pc = "type_save", !.config = cfg]]
    /\ UNCHANGED <<files, backups, cfg, locks, clock, nextTok, issued, closed, appended, service, chat, tailing>>

TypeSave(w) ==
    /\ wk[w].pc = "type_save"
    /\ LET config == [wk[w].config EXCEPT
                        !.base_context_types = DictSet(@, wk[w].filename, wk[w].req.type)]
       IN  /\ cfg' = config
           /\ wk' = [wk EXCEPT ![w] = [Reply(w,
                    [status |-> 200, filename |-> wk[w].filename, type |-> wk[w].req.type])
                        EXCEPT !.config = config]]
    /\ UNCHANGED <<files, backups, locks, clock, nextTok, issued, closed, appended, service, chat, tailing>>

\* ------------------------------------------------------ specifications ---
\* the response is sent; the worker takes the next request
Return(w) ==
    /\ wk[w].pc = "done"
    /\ wk' = [wk EXCEPT ![w] = IdleWorker]
    /\ UNCHANGED <<files, backups, cfg, locks, clock, nextTok, issued, closed, appended, service, chat, tailing>>

StreamBegin(w, names, texts) ==
    \/ BeginStart(w, names)
    \/ BeginAppend(w, texts)
    \/ BeginStatus(w)
    \/ BeginFinalize(w)
    \/ BeginAbort(w)

StreamStep(w) ==
    \/ StartLoad(w) \/ StartExists(w) \/ StartCreate(w) \/ StartSave(w)
    \/ AppendLoad(w) \/ AppendSize(w) \/ AppendLock(w) \/ AppendWrite(w)
    \/ AppendUnlock(w) \/ AppendSave(w) \/ AppendRead(w)
    \/ StatusLoad(w) \/ StatusRead(w)
    \/ FinalizeLoad(w) \/ FinalizeRead(w) \/ FinalizeSave(w)
    \/ AbortLoad(w) \/ AbortRemove(w) \/ AbortSave(w)
    \/ Return(w)

CorpusBegin(w, names, batches, targets) ==
    \/ BeginUpload(w, batches, targets)
    \/ BeginPublicUpload(w, batches)
    \/ BeginDelete(w, names)
    \/ BeginMove(w, names, targets)
    \/ BeginSetType(w, names)

CorpusStep(w) ==
    \/ UploadCheck(w) \/ UploadStore(w) \/ UploadLoad(w) \/ UploadSave(w)
    \/ DeleteExists(w) \/ DeleteLoad(w) \/ DeleteRemove(w) \/ DeleteSave(w)
    \/ MoveExists(w) \/ MoveLoad(w) \/ MoveSave(w)
    \/ TypeExists(w) \/ TypeLoad(w) \/ TypeSave(w)

\* Every operation of the streaming API and of the corpus registry, the
\* requests served one at a time: a request is taken when no other is in
\* progress, so each handler runs from its first to its last line.
SerialWorkers == {"w1"}
SerialTargets == {"base_context", "vectorized:books", "trash"}
SerialBatches == {b \in Batches : Len(b) <= 1}

Next ==
    \E w \in SerialWorkers :
        \/ AllIdle /\ StreamBegin(w, RawNames, Texts)
        \/ AllIdle /\ CorpusBegin(w, RawNames, SerialBatches, SerialTargets)
        \/ StreamStep(w)
        \/ CorpusStep(w)

Spec == Init /\ [][Next]_vars

\* The streaming API alone, one request at a time.
NextStreamSeq ==
    \E w \in SerialWorkers : (AllIdle /\ StreamBegin(w, RawNames, Texts)) \/ StreamStep(w)

SpecStreamSeq == Init /\ [][NextStreamSeq]_vars

\* The streaming API with the requests of two clients served concurrently,
\* each on its own worker, their steps interleaved in any order.
ConcNames == {"a.txt"}
ConcTexts == {<<"h">>, <<"w", "o">>}

NextConc ==
    \E w \in Workers : StreamBegin(w, ConcNames, ConcTexts) \/ StreamStep(w)

SpecConc == Init /\ [][NextConc]_vars

\* The two upload operations alone, one request at a time, with requests of
\* up to MaxBatch files for every target.
NextUpload ==
    \E w \in SerialWorkers :
        \/ AllIdle /\ BeginUpload(w, Batches, TargetInputs)
        \/ AllIdle /\ BeginPublicUpload(w, Batches)
        \/ UploadCheck(w) \/ UploadStore(w) \/ UploadLoad(w) \/ UploadSave(w)
        \/ Return(w)

SpecUpload == Init /\ [][NextUpload]_vars

\* Concurrent appenders: both files have an open session (the state after
\* start "a.txt" and start "b.md") and the clients only append.
InitAppend ==
    /\ files = [f \in FileNames |-> <<>>]
    /\ backups = [f \in FileNames |-> <<>>]
    /\ cfg = [EmptyConfig EXCEPT !.streaming_sessions =
                [f \in FileNames |-> IF f = "a.txt" THEN NewSession(1, 1, "svc")
                                     ELSE NewSession(2, 2, "svc")]]
    /\ locks = [f \in FileNames |-> "none"]
    /\ clock = 2
    /\ nextTok = 3
    /\ wk = [w \in Workers |-> IdleWorker]
    /\ issued = {<<1, "a.txt">>, <<2, "b.md">>}
    /\ closed = {}
    /\ appended = [t \in {1, 2} |-> <<>>]
    /\ ServiceInit
    /\ ChatInit
    /\ mtime = [f \in FileNames |-> 1]
    /\ watch = IdleWatch

NextAppend ==
    \E w \in Workers :
        \/ BeginAppend(w, ConcTexts)
        \/ AppendLoad(w) \/ AppendSize(w) \/ AppendLock(w) \/ AppendWrite(w)
        \/ AppendUnlock(w) \/ AppendSave(w) \/ AppendRead(w)
        \/ Return(w)

SpecAppend == InitAppend /\ [][NextAppend]_vars

\* InitAppend is a state the serial program reaches
InitAppendReached ==
    /\ AllIdle
    /\ files = [f \in FileNames |-> <<>>]
    /\ cfg = [EmptyConfig EXCEPT !.streaming_sessions =
                [f \in FileNames |-> IF f = "a.txt" THEN NewSession(1, 1, "svc")
                                     ELSE NewSession(2, 2, "svc")]]
    /\ clock = 2 /\ nextTok = 3
    /\ issued = {<<1, "a.txt">>, <<2, "b.md">>}
    /\ appended = [t \in {1, 2} |-> <<>>]
    /\ mtime = [f \in FileNames |-> 1]

\* ------------------------------------------------------------ claims ---
Done(w, op) == wk[w].pc = "done" /\ wk[w].req.op = op

\* no handler is between its first and its last line
Quiescent == \A w \in Workers : wk[w].pc \in {"idle", "done"}

RECURSIVE Concat(_)
Concat(texts) ==
    IF texts = <<>> THEN <<>> ELSE Head(texts) \o Concat(Tail(texts))

RECURSIVE Lines(_)
Lines(texts) ==
    IF texts = <<>> THEN <<>> ELSE Head(texts) \o <<NL>> \o Lines(Tail(texts))

InNoBucket(config, f) ==
    \A c \in Categories : ~InList(config.vectorized_files[c], f)

\* C1, as stated: when finalize succeeds after start, append(t1), ...,
\* append(tn), the file is in the base corpus, its content is exactly
\* t1 t2 ... tn with nothing added, and the file name has no session.
C1_ExactConcatenation ==
    \A w \in Workers :
        (Done(w, "finalize") /\ wk[w].resp.status = 200) =>
            LET f == wk[w].filename
            IN  /\ f \in DOMAIN files
                /\ files[f] = Concat(appended[wk[w].req.session_id])
                /\ InList(cfg.base_context, f)
                /\ f \notin DOMAIN cfg.streaming_sessions

\* C1, amended: when finalize succeeds after start, append(t1), ...,
\* append(tn), the file is in the base corpus, its content is
\* t1 "\n" t2 "\n" ... tn "\n" (each appended text followed by one line
\* break, in call order), and the file name has no session.
C1_LinePerAppend ==
    \A w \in Workers :
        (Done(w, "finalize") /\ wk[w].resp.status = 200) =>
            LET f == wk[w].filename
            IN  /\ f \in DOMAIN files
                /\ files[f] = Lines(appended[wk[w].req.session_id])
                /\ InList(cfg.base_context, f)
                /\ f \notin DOMAIN cfg.streaming_sessions

\* start, append "h", append "wo", finalize have all succeeded
C1_Witness ==
    \E w \in Workers :
        /\ Done(w, "finalize") /\ wk[w].resp.status = 200
        /\ appended[wk[w].req.session_id] = << <<"h">>, <<"w", "o">> >>
        /\ files[wk[w].filename] = <<"h", NL, "w", "o", NL>>

\* the workers whose append has written its whole record to file f and has
\* not answered yet
WrittenUnanswered(f) ==
    {w \in Workers : /\ wk[w].req.op = "append"
                     /\ wk[w].filename = f
                     /\ wk[w].pc \in {"append_unlock", "append_save", "append_read"}}

SeqOf(S) ==
    CHOOSE q \in [1..Cardinality(S) -> S] : \A x \in S : \E k \in DOMAIN q : q[k] = x

\* the texts whose record is completely in the file of session sid
CompleteTexts(f, sid) ==
    LET ws == SeqOf(WrittenUnanswered(f))
    IN  appended[sid] \o [k \in DOMAIN ws |-> wk[ws[k]].req.content]

Serializations(texts) ==
    LET n == Len(texts)
        perms == {p \in [1..n -> 1..n] : \A a, b \in 1..n : p[a] = p[b] => a = b}
    IN  {[k \in 1..n |-> texts[p[k]]] : p \in perms}

\* what the append that is writing to file f has written so far
PartialRecord(f) ==
    LET ws == {w \in Workers : wk[w].pc = "append_write" /\ wk[w].filename = f}
    IN  IF ws = {} THEN <<>>
        ELSE LET w == CHOOSE v \in ws : TRUE
             IN  SubSeq(wk[w].req.content \o <<NL>>, 1, wk[w].i - 1)

\* C2: concurrent appends to one streaming file are never interleaved: at
\* every moment the file is the records (text and its line break) of the
\* appends that have written, whole and one after the other in one of their
\* sequential orders, followed only by what the one append holding the lock
\* has written so far; no text is lost or split.
C2_AppendsSerialized ==
    \A f \in DOMAIN cfg.streaming_sessions :
        /\ f \in DOMAIN files
        /\ \E order \in Serializations(CompleteTexts(f, cfg.streaming_sessions[f].session_id)) :
                files[f] = Lines(order) \o PartialRecord(f)

\* two appends of different texts to one file are in progress together and
\* both have written
C2_Witness ==
    \E w, v \in Workers :
        /\ w # v
        /\ wk[w].pc = "append_read" /\ wk[v].pc = "append_unlock"
        /\ wk[w].filename = wk[v].filename
        /\ wk[w].req.content # wk[v].req.content
        /\ Len(files[wk[w].filename]) = 5

\* the file of the session an append request names, as the request found it
TargetOf(w) == FindSession(wk[w].pre.cfg.streaming_sessions, wk[w].req.session_id)

\* C3: an append whose text exceeds the per-call cap, or whose resulting
\* file total would exceed the total-file cap, is rejected with a capacity
\* error (413) and leaves the file, the session entry and its last-updated
\* timestamp as they were.
C3_OverCapRejected ==
    \A w \in Workers :
        (Done(w, "append") /\ wk[w].req.content # <<>> /\ TargetOf(w) # "") =>
            LET f == TargetOf(w)
                content == wk[w].req.content
                total == ByteLen(wk[w].pre.files[f]) + ByteLen(content \o <<NL>>)
            IN  (Len(content) > MaxAppendChars \/ total > MaxFileBytes) =>
                    /\ wk[w].resp.status = 413
                    /\ files = wk[w].pre.files
                    /\ cfg = wk[w].pre.cfg

\* the calls C4 is about: made with a session id that was closed before the
\* call, or that was never issued
StaleCall(w) ==
    /\ wk[w].pc = "done"
    /\ wk[w].req.op \in {"append", "status", "finalize", "abort"}
    /\ wk[w].req.session_id \in wk[w].pre.closed \cup {BogusSid}

\* C4: a call (append, status, finalize, abort) with a token whose session
\* was finalized or aborted before the call began, or with a token that was
\* never issued, is rejected: it is never answered as a success.
C4_ClosedIsRejected ==
    \A w \in Workers : StaleCall(w) => wk[w].resp.status \in {400, 404, 413}

\* the start requests with an acceptable file name
StartOf(w) == Done(w, "start") /\ wk[w].filename # ""

\* C5: start for a file name with an open session answers with the token of
\* that session and leaves the session map (tokens and timestamps), the
\* placement map and every file unchanged, however often it is repeated.
C5_StartResumes ==
    \A w \in Workers :
        (StartOf(w) /\ wk[w].filename \in DOMAIN wk[w].pre.cfg.streaming_sessions) =>
            /\ wk[w].resp.status = 200
            /\ wk[w].resp.session_id =
                    wk[w].pre.cfg.streaming_sessions[wk[w].filename].session_id
            /\ cfg = wk[w].pre.cfg
            /\ files = wk[w].pre.files

\* a start has resumed a session that already holds appended text
C5_Witness ==
    \E w \in Workers :
        /\ StartOf(w) /\ wk[w].resp.status = 200 /\ wk[w].resp.resumed
        /\ files[wk[w].filename] # <<>>

\* C6: start for a file name that exists in the corpus folder and has no
\* open session is rejected as a conflict (409) and leaves every file, the
\* placement map and the session map unchanged.
C6_StartConflict ==
    \A w \in Workers :
        (/\ StartOf(w)
         /\ wk[w].filename \in DOMAIN wk[w].pre.files
         /\ wk[w].filename \notin DOMAIN wk[w].pre.cfg.streaming_sessions) =>
            /\ wk[w].resp.status = 409
            /\ cfg = wk[w].pre.cfg
            /\ files = wk[w].pre.files

\* a start for an uploaded (never streamed) file has been rejected
C6_Witness ==
    \E w \in Workers :
        /\ StartOf(w) /\ wk[w].resp.status = 409
        /\ files[wk[w].filename] = <<"u">>

\* C7: every token a successful start returned and that was not finalized or
\* aborted is the token of its file name's open session, so no two open
\* tokens exist for one file name, also when starts run concurrently.
C7_TokenIdentifiesSession ==
    \A p \in issued :
        p[1] \notin closed =>
            /\ p[2] \in DOMAIN cfg.streaming_sessions
            /\ cfg.streaming_sessions[p[2]].session_id = p[1]

\* C8: between requests, every file name with an entry in the session map
\* has a backing file in the corpus folder.
C8_SessionHasFile ==
    Quiescent => \A f \in DOMAIN cfg.streaming_sessions : f \in DOMAIN files

\* C9: after a successful finalize the file name has no session, is in the
\* base corpus exactly once with type "transcript", is in no retrieval
\* bucket, and the file content is what it was before finalize.
C9_FinalizePlacesInBase ==
    \A w \in Workers :
        (Done(w, "finalize") /\ wk[w].resp.status = 200) =>
            LET f == wk[w].filename
            IN  /\ f \notin DOMAIN cfg.streaming_sessions
                /\ Count(cfg.base_context, f) = 1
                /\ f \in DOMAIN cfg.base_context_types
                /\ cfg.base_context_types[f] = "transcript"
                /\ InNoBucket(cfg, f)
                /\ f \in DOMAIN files
                /\ files[f] = wk[w].pre.files[f]

\* C10: after a successful abort the session is gone; with deleteFile the
\* file no longer exists and the file name is neither in the base corpus nor
\* in a bucket; without it the content is unchanged and the file name is in
\* the base corpus exactly once.
C10_AbortDropsOrPreserves ==
    \A w \in Workers :
        (Done(w, "abort") /\ wk[w].resp.status = 200) =>
            LET f == wk[w].filename
            IN  /\ f \notin DOMAIN cfg.streaming_sessions
                /\ IF wk[w].req.delete_file
                   THEN /\ f \notin DOMAIN files
                        /\ ~InList(cfg.base_context, f)
                        /\ InNoBucket(cfg, f)
                   ELSE /\ f \in DOMAIN files
                        /\ files[f] = wk[w].pre.files[f]
                        /\ Count(cfg.base_context, f) = 1

\* the delete and move requests for a file that exists and that an open
\* session owns; a move carries one of the valid targets
OnStreamingFile(w) ==
    /\ \/ Done(w, "delete")
       \/ Done(w, "move") /\ wk[w].req.target \in Targets
    /\ wk[w].filename \in DOMAIN wk[w].pre.files
    /\ wk[w].filename \in DOMAIN wk[w].pre.cfg.streaming_sessions

\* C11: a remove, and a move to a valid target, of a file name that an open
\* session owns is rejected as a conflict (409) and leaves every file, its
\* backups, the placement map and the session map unchanged; whenever a
\* remove has deleted the file, no open session owned the file name.
C11_StreamOwnerConflict ==
    \A w \in Workers :
        /\ OnStreamingFile(w) =>
                /\ wk[w].resp.status = 409
                /\ files = wk[w].pre.files
                /\ backups = wk[w].pre.backups
                /\ cfg = wk[w].pre.cfg
        /\ (/\ Done(w, "delete")
            /\ wk[w].filename \in DOMAIN wk[w].pre.files
            /\ wk[w].filename \notin DOMAIN files) =>
                wk[w].filename \notin DOMAIN wk[w].pre.cfg.streaming_sessions

\* a remove of a streaming file that already holds appended text was rejected
C11_Witness ==
    \E w \in Workers :
        /\ Done(w, "delete") /\ OnStreamingFile(w)
        /\ wk[w].resp.status = 409
        /\ files[wk[w].filename] # <<>>

\* the number of placements of file name f: its entries in the base corpus
\* and in the buckets, plus one when it is in the active-stream map
Placements(config, f) ==
    LET inBucket(c) == Count(config.vectorized_files[c], f)
    IN  Count(config.base_context, f)
        + inBucket("transcript") + inBucket("books") + inBucket("background_info")
        + (IF f \in DOMAIN config.streaming_sessions THEN 1 ELSE 0)

\* C12: between requests no file name has more than one placement: it is
\* never in the base corpus and a bucket, in two buckets, or in the base
\* corpus or a bucket and the active-stream map at once.
C12_SinglePlacement ==
    Quiescent => \A f \in FileNames : Placements(cfg, f) <= 1

\* C13: an upload answered 400 (disallowed file type, oversized file) leaves
\* the corpus folder, the backups and the placement map as the request found
\* them, wherever the rejected file stands in the request.
C13_RejectedUploadNoWrite ==
    \A w \in Workers :
        (Done(w, "upload") /\ wk[w].resp.status = 400) =>
            /\ files = wk[w].pre.files
            /\ backups = wk[w].pre.backups
            /\ cfg = wk[w].pre.cfg

\* ------------------------------------- EmbeddingService.chunk_text ----
\* Texts to chunk: every text of up to MaxTextLen characters over a letter,
\* the period and the line break.  MaxChunks bounds the chunk list of a call
\* that keeps looping.
MaxTextLen == 6
MaxChunks == 8
ChunkAlphabet == {"a", ".", NL}
ChunkTexts == UNION {[1..n -> ChunkAlphabet] : n \in 0..MaxTextLen}

\* Python's text[a:b] (0-based, b exclusive): a negative index counts from
\* the end, and every index is clamped to the text
SliceIndex(i, n) ==
    IF i < 0 THEN (IF n + i < 0 THEN 0 ELSE n + i)
    ELSE IF i > n THEN n ELSE i

Slice(text, a, b) ==
    LET lo == SliceIndex(a, Len(text))
        hi == SliceIndex(b, Len(text))
    IN  IF lo >= hi THEN <<>> ELSE SubSeq(text, lo + 1, hi)

\* str.rfind(ch): the 0-based index of the last ch, -1 when there is none
rfind(text, ch) ==
    LET hits == {k \in 1..Len(text) : text[k] = ch}
    IN  IF hits = {} THEN 0 - 1 ELSE (CHOOSE k \in hits : \A j \in hits : j <= k) - 1

\* str.strip(): the line break is the only whitespace of ChunkAlphabet
RECURSIVE strip(_)
strip(text) ==
    IF text = <<>> THEN <<>>
    ELSE IF Head(text) = NL THEN strip(Tail(text))
    ELSE IF text[Len(text)] = NL THEN strip(SubSeq(text, 1, Len(text) - 1))
    ELSE text

\* fault: a window one character wider than chunk_size
WindowTooWide(text, start, chunk_size) == start + chunk_size + 1

\* where the window that starts at start ends: at start + chunk_size, or
\* after the last period or line break of the window when that lies beyond
\* the middle of the window and the text goes on after the window
WindowEnd(text, start, chunk_size) ==
    LET end == start + chunk_size
        chunk_text == Slice(text, start, end)
        last_period == rfind(chunk_text, ".")
        last_newline == rfind(chunk_text, NL)
        break_point == IF last_period > last_newline THEN last_period ELSE last_newline
    IN  IF end < Len(text) /\ break_point > chunk_size \div 2
        THEN start + break_point + 1
        ELSE end

\* the dict appended for the window [start, end)
ChunkOf(text, chunk_id, start, end) ==
    [chunk_id |-> chunk_id, text |-> strip(Slice(text, start, end)),
     start |-> start, end |-> end]

\* process_context_files calls chunk_text(content, ...)
ChunkBegin(texts) ==
    /\ ck.pc = "idle"
    /\ svc.embeddings_initialized
    /\ \E text \in texts :
        ck' = [pc |-> "loop", text |-> text, start |-> 0, chunks |-> <<>>]
    /\ UNCHANGED <<registry, settings, svc, index, rx, asm, sq, chat, tailing>>

\* "while start < text_length:" and one turn of its body
ChunkStep ==
    /\ ck.pc = "loop"
    /\ Len(ck.chunks) < MaxChunks
    /\ IF ck.start < Len(ck.text)
       THEN LET end == WindowEnd(ck.text, ck.start, svc.chunk_size)
            IN  ck' = [ck EXCEPT
                        !.chunks = Append(@, ChunkOf(ck.text, Len(ck.chunks), ck.start, end)),
                        !.start = end - svc.chunk_overlap]
       ELSE ck' = [ck EXCEPT !.pc = "returned"]
    /\ UNCHANGED <<registry, settings, svc, index, rx, asm, sq, chat, tailing>>

\* the caller has taken the chunk list
ChunkDone ==
    /\ ck.pc = "returned"
    /\ ck' = IdleChunker
    /\ UNCHANGED <<registry, settings, svc, index, rx, asm, sq, chat, tailing>>

\* Settings.get(key, default)
SettingsGet(key, default) ==
    IF key \in DOMAIN settings THEN settings[key] ELSE default

\* the values a settings request may carry
ChunkSizeInputs == (MinChunkSize - 1)..(MaxChunkSize + 1)
ChunkOverlapInputs == (0 - 1)..(MaxChunkOverlap + 1)
RetrieveInputs == 0..(MaxRetrieve + 1)

\* "Validate settings" of save_embedding_settings
ValidSettings(chunk_size, chunk_overlap, chunks_to_retrieve) ==
    /\ chunk_size >= MinChunkSize /\ chunk_size <= MaxChunkSize
    /\ chunk_overlap >= 0 /\ chunk_overlap <= MaxChunkOverlap
    /\ chunks_to_retrieve >= 1 /\ chunks_to_retrieve <= MaxRetrieve

\* save_embedding_settings: a request that fails the validation is answered
\* 400 and saves nothing
SaveSettings ==
    /\ \E chunk_size \in ChunkSizeInputs, chunk_overlap \in ChunkOverlapInputs,
          chunks_to_retrieve \in RetrieveInputs :
        settings' =
            IF ValidSettings(chunk_size, chunk_overlap, chunks_to_retrieve)
            THEN [k \in DOMAIN settings \cup {"chunk_size", "chunk_overlap", "chunks_to_retrieve"} |->
                    CASE k = "chunk_size" -> chunk_size
                      [] k = "chunk_overlap" -> chunk_overlap
                      [] k = "chunks_to_retrieve" -> chunks_to_retrieve
                      [] OTHER -> settings[k]]
            ELSE settings
    /\ UNCHANGED <<registry, svc, ck, index, rx, asm, sq, chat, tailing>>

\* EmbeddingService.initialize, called when embeddings_initialized is false:
\* the chunk settings and the provider are loaded first; the rest (Gemini
\* key, ChromaDB client, get_or_create_collection) succeeds or raises
Initialize ==
    /\ ~svc.embeddings_initialized
    /\ ck.pc = "idle" /\ rx.pc = "idle"
    /\ \E ok \in BOOLEAN :
        /\ svc' = [svc EXCEPT
                    !.chunk_size = SettingsGet("chunk_size", ClassChunkSize),
                    !.chunk_overlap = SettingsGet("chunk_overlap", DefaultChunkOverlap),
                    !.chunks_to_retrieve = SettingsGet("chunks_to_retrieve", DefaultRetrieve),
                    !.provider = SettingsGet("embedding_provider", "gemini"),
                    !.collection = IF ok THEN "live" ELSE @,
                    !.embeddings_initialized = ok]
        /\ index' = IF ok THEN [index EXCEPT !.exists = TRUE] ELSE index
    /\ UNCHANGED <<registry, settings, ck, rx, asm, sq, chat, tailing>>

\* The settings operation, the service start and the chunker together.
SettingsTexts == {<<"a", "a", "a">>, <<"a", "a", "a", ".", "a", "a">>}

NextSettings ==
    SaveSettings \/ Initialize \/ ChunkBegin(SettingsTexts) \/ ChunkStep \/ ChunkDone

SpecSettings == Init /\ [][NextSettings]_vars

\* chunk_text for every text under every chunk setting the service can hold
\* (the values save_embedding_settings accepts and initialize loads)
InitChunk ==
    /\ RegistryInit
    /\ settings = [k \in {} |-> 0]
    /\ \E cs \in MinChunkSize..MaxChunkSize, co \in 0..MaxChunkOverlap :
        svc = [NewService EXCEPT !.embeddings_initialized = TRUE, !.collection = "live",
                                 !.chunk_size = cs, !.chunk_overlap = co]
    /\ ck = IdleChunker
    /\ index = [exists |-> TRUE, items |-> {}]
    /\ rx = IdleReindex
    /\ asm = IdleAssemble
    /\ sq = IdleSearch
    /\ ChatInit
    /\ LiveInit

NextChunk == ChunkBegin(ChunkTexts) \/ ChunkStep \/ ChunkDone

SpecChunk == InitChunk /\ [][NextChunk]_vars

\* chunk_text has returned under a setting with chunk_overlap < chunk_size
ChunkedValid == ck.pc = "returned" /\ svc.chunk_overlap < svc.chunk_size

\* the number of offsets the spans of chunks a and b share
SharedOffsets(a, b) ==
    LET lo == IF a.start > b.start THEN a.start ELSE b.start
        hi == IF a.end < b.end THEN a.end ELSE b.end
    IN  IF hi > lo THEN hi - lo ELSE 0

\* C14: for every text and every setting with 0 <= chunk_overlap <
\* chunk_size, the spans [start, end) chunk_text returns, in order, begin at
\* offset 0, leave no gap and cover every offset of the text; consecutive
\* spans share at most chunk_overlap offsets; no span and no chunk text is
\* longer than chunk_size.
C14_SpansCoverText ==
    ChunkedValid =>
        LET c == ck.chunks
            n == Len(c)
        IN  /\ \A off \in 0..(Len(ck.text) - 1) :
                    \E k \in 1..n : c[k].start <= off /\ off < c[k].end
            /\ n > 0 => c[1].start = 0
            /\ \A k \in 1..(n - 1) :
                    /\ c[k + 1].start <= c[k].end
                    /\ SharedOffsets(c[k], c[k + 1]) <= svc.chunk_overlap
            /\ \A k \in 1..n :
                    /\ c[k].end - c[k].start <= svc.chunk_size
                    /\ Len(c[k].text) <= svc.chunk_size

\* a text was cut into three or more overlapping chunks, one of them ended
\* early at a period or line break
C14_Witness ==
    /\ ChunkedValid
    /\ svc.chunk_overlap > 0
    /\ Len(ck.chunks) >= 3
    /\ \E k \in 1..Len(ck.chunks) : ck.chunks[k].end - ck.chunks[k].start < svc.chunk_size

\* C16: for every non-empty text of at most chunk_size characters (with
\* chunk_overlap < chunk_size) chunk_text returns exactly one chunk, and its
\* span contains the whole text.
C16_ShortTextOneChunk ==
    (ChunkedValid /\ ck.text # <<>> /\ Len(ck.text) <= svc.chunk_size) =>
        /\ Len(ck.chunks) = 1
        /\ ck.chunks[1].start = 0
        /\ ck.chunks[1].end >= Len(ck.text)

\* C15: a setting with chunk_overlap >= chunk_size is never stored by the
\* settings operation and chunk_text never runs with one.
C15_OverlapBelowSize ==
    /\ {"chunk_size", "chunk_overlap"} \subseteq DOMAIN settings =>
            settings["chunk_overlap"] < settings["chunk_size"]
    /\ ck.pc # "idle" => svc.chunk_overlap < svc.chunk_size

\* ------------------------------------------------ the vector index ---
\* the vector lengths named in process_context_files
GeminiDim == 768
MiniLMDim == 384

\* fault: one vector length per configured provider
DimOfProvider(provider) == IF provider = "gemini" THEN GeminiDim ELSE MiniLMDim

\* encode: "return self._gemini_encode(texts)" whatever the provider is
EmbeddingDim(provider) == GeminiDim

\* chunk_text as a function of its arguments; returned is false when the
\* loop is still running after MaxChunks chunks
RECURSIVE ChunkLoop(_, _, _, _, _)
ChunkLoop(text, chunk_size, chunk_overlap, start, chunks) ==
    IF ~(start < Len(text)) THEN [returned |-> TRUE, chunks |-> chunks]
    ELSE IF Len(chunks) >= MaxChunks THEN [returned |-> FALSE, chunks |-> chunks]
    ELSE LET end == WindowEnd(text, start, chunk_size)
         IN  ChunkLoop(text, chunk_size, chunk_overlap, end - chunk_overlap,
                       Append(chunks, ChunkOf(text, Len(chunks), start, end)))

chunk_text(text, chunk_size, chunk_overlap) ==
    ChunkLoop(text, chunk_size, chunk_overlap, 0, <<>>)

\* what collection.add stores for one chunk of filename in category
ItemOf(chunk, filename, category, dim) ==
    [id |-> <<filename, chunk.chunk_id>>, document |-> chunk.text, dim |-> dim,
     metadata |-> [filename |-> filename, category |-> category,
                   chunk_id |-> chunk.chunk_id, start |-> chunk.start, end |-> chunk.end]]

ItemsOf(chunks, filename, category, dim) ==
    {ItemOf(chunks[k], filename, category, dim) : k \in 1..Len(chunks)}

\* "for category, files in vectorized_files.items()" in the order of the keys
CategoryOrder == <<"transcript", "books", "background_info">>

Listed(vectorized_files) ==
    LET row(c) == [k \in 1..Len(vectorized_files[c]) |->
                      [filename |-> vectorized_files[c][k], category |-> c]]
    IN  row(CategoryOrder[1]) \o row(CategoryOrder[2]) \o row(CategoryOrder[3])

\* "file_categories[filename] = category": a dict keeps a key where it was
\* first inserted and holds the value assigned last
RECURSIVE DictItems(_, _)
DictItems(all, k) ==
    IF k > Len(all) THEN <<>>
    ELSE IF \E j \in 1..(k - 1) : all[j].filename = all[k].filename THEN DictItems(all, k + 1)
    ELSE LET last == CHOOSE j \in k..Len(all) :
                        /\ all[j].filename = all[k].filename
                        /\ \A m \in (j + 1)..Len(all) : all[m].filename # all[k].filename
         IN  <<all[last]>> \o DictItems(all, k + 1)

FileCategories(vectorized_files) == DictItems(Listed(vectorized_files), 1)

\* the module is imported by a new process: "embedding_service = EmbeddingService()"
Restart ==
    /\ AllIdle /\ ck.pc = "idle" /\ rx.pc = "idle"
    /\ svc # NewService
    /\ svc' = NewService
    /\ UNCHANGED <<registry, settings, ck, index, rx, asm, sq, chat, tailing>>

\* update_embedding_provider
Providers == {"sentence-transformers", "gemini"}
ProviderInputs == Providers \cup {"openai"}

UpdateProvider ==
    /\ rx.pc = "idle"
    /\ \E provider \in ProviderInputs :
        settings' = IF provider \in Providers
                    THEN [k \in DOMAIN settings \cup {"embedding_provider"} |->
                            IF k = "embedding_provider" THEN provider ELSE settings[k]]
                    ELSE settings
    /\ UNCHANGED <<registry, svc, ck, index, rx, asm, sq, chat, tailing>>

\* process_embeddings calls process_context_files on the initialized service
ReindexBegin ==
    /\ rx.pc = "idle" /\ ck.pc = "idle"
    /\ svc.embeddings_initialized
    /\ rx' = [IdleReindex EXCEPT !.pc = "clear", !.pre = index]
    /\ UNCHANGED <<registry, settings, svc, ck, index, asm, sq, chat, tailing>>

\* "[1/4]": delete_collection inside a try whose except passes: the
\* collection is dropped (the handle the service holds is stale until the
\* next line replaces it), or the delete raised and nothing changed
ReindexClear ==
    /\ rx.pc = "clear"
    /\ \E outcome \in {"deleted", "delete_raised"} :
        /\ outcome = "deleted" => index.exists
        /\ index' = IF outcome = "deleted" THEN NoIndex ELSE index
        /\ svc' = [svc EXCEPT !.collection = IF outcome = "deleted" THEN "stale" ELSE @]
        /\ rx' = IF outcome = "deleted"
                 THEN [rx EXCEPT !.pc = "create"]
                 ELSE [rx EXCEPT !.pc = "load", !.cleared = outcome]
    /\ UNCHANGED <<registry, settings, ck, asm, sq, chat, tailing>>

\* "self.collection = self.client.create_collection(...)" in the same try:
\* the collection is there again and empty, or the create raised (the
\* service keeps the stale handle)
ReindexCreate ==
    /\ rx.pc = "create"
    /\ \E outcome \in {"recreated", "create_raised"} :
        /\ index' = IF outcome = "recreated" THEN [exists |-> TRUE, items |-> {}] ELSE index
        /\ svc' = [svc EXCEPT !.collection = IF outcome = "recreated" THEN "live" ELSE @]
        /\ rx' = [rx EXCEPT !.pc = "load", !.cleared = outcome]
    /\ UNCHANGED <<registry, settings, ck, asm, sq, chat, tailing>>

\* "[2/4]": the configuration is read and the file-to-category dict built
ReindexLoad ==
    /\ rx.pc = "load"
    /\ rx' = [rx EXCEPT !.pc = "files", !.i = 1,
                        !.file_categories = FileCategories(cfg.vectorized_files)]
    /\ UNCHANGED <<registry, settings, svc, ck, index, asm, sq, chat, tailing>>

\* "[3/4]": one turn of the loop over file_categories: the file is read,
\* chunked, embedded and added; encode or add may raise, add raises on a
\* collection that is gone, and ids already stored are refused or skipped
ReindexFile ==
    /\ rx.pc = "files"
    /\ rx.i <= Len(rx.file_categories)
    /\ LET filename == rx.file_categories[rx.i].filename
           category == rx.file_categories[rx.i].category
           call == IF filename \in DOMAIN files
                   THEN chunk_text(files[filename], svc.chunk_size, svc.chunk_overlap)
                   ELSE [returned |-> TRUE, chunks |-> <<>>]
           items == ItemsOf(call.chunks, filename, category, EmbeddingDim(svc.provider))
           stored == {x.id : x \in index.items}
           fresh == {x \in items : x.id \notin stored}
           failed == [rx EXCEPT !.pc = "done", !.result = FALSE]
       IN  IF ~call.returned
           THEN rx' = [rx EXCEPT !.pc = "hung"] /\ index' = index
           ELSE IF call.chunks = <<>>
           THEN rx' = [rx EXCEPT !.i = @ + 1] /\ index' = index
           ELSE \E outcome \in {"added", "encode_raised", "add_raised"} :
                   /\ (svc.collection # "live" \/ ~index.exists) => outcome # "added"
                   /\ IF outcome = "added"
                      THEN /\ index' = [index EXCEPT !.items = @ \cup fresh]
                           /\ rx' = [rx EXCEPT !.i = @ + 1]
                      ELSE /\ index' = index
                           /\ rx' = failed
    /\ UNCHANGED <<registry, settings, svc, ck, asm, sq, chat, tailing>>

\* "[4/4]": "return True"
ReindexFinish ==
    /\ rx.pc = "files"
    /\ rx.i > Len(rx.file_categories)
    /\ rx' = [rx EXCEPT !.pc = "done", !.result = TRUE]
    /\ UNCHANGED <<registry, settings, svc, ck, index, asm, sq, chat, tailing>>

\* process_embeddings answers 200 or 500
ReindexDone ==
    /\ rx.pc = "done"
    /\ rx' = IdleReindex
    /\ UNCHANGED <<registry, settings, svc, ck, index, asm, sq, chat, tailing>>

\* The index operations with the registry operations that feed it, one
\* request at a time, in a process that may be restarted.
IndexBatches ==
    {<<[filename |-> "a.txt", content |-> <<"u">>]>>,
     <<[filename |-> "b.md", content |-> <<"u">>]>>}
IndexTargets == {"vectorized:transcript", "vectorized:books"}
IndexMoveTargets == {"base_context"}

NextIndex ==
    \/ \E w \in SerialWorkers :
        \/ AllIdle /\ rx.pc = "idle" /\ BeginUpload(w, IndexBatches, IndexTargets)
        \/ AllIdle /\ rx.pc = "idle" /\ BeginDelete(w, FileNames)
        \/ AllIdle /\ rx.pc = "idle" /\ BeginMove(w, FileNames, IndexMoveTargets)
        \/ UploadCheck(w) \/ UploadStore(w) \/ UploadLoad(w) \/ UploadSave(w)
        \/ DeleteExists(w) \/ DeleteLoad(w) \/ DeleteRemove(w) \/ DeleteSave(w)
        \/ MoveExists(w) \/ MoveLoad(w) \/ MoveSave(w)
        \/ Return(w)
    \/ Initialize
    \/ Restart
    \/ UpdateProvider
    \/ AllIdle /\ ReindexBegin
    \/ ReindexClear \/ ReindexCreate \/ ReindexLoad \/ ReindexFile \/ ReindexFinish \/ ReindexDone

SpecIndex == Init /\ [][NextIndex]_vars

\* ---------------------------------------------- claims on the index ---
ReindexFailed == rx.pc = "done" /\ ~rx.result
ReindexSucceeded == rx.pc = "done" /\ rx.result

\* C17: when a reindex has failed (encode or add raised), the index holds
\* exactly the chunk set it held when the reindex started.
C17_FailedReindexKeepsIndex ==
    ReindexFailed => index.items = rx.pre.items

\* the chunks the files now placed in retrieval buckets have under the
\* settings of the service, tagged with a bucket the file is placed in
PlacedIn(f) == {c \in Categories : \E k \in 1..Len(cfg.vectorized_files[c]) :
                                        cfg.vectorized_files[c][k] = f}

CurrentChunks(f) == chunk_text(files[f], svc.chunk_size, svc.chunk_overlap).chunks

IsCurrent(x) ==
    LET f == x.metadata.filename
    IN  /\ f \in DOMAIN files
        /\ x.metadata.category \in PlacedIn(f)
        /\ \E k \in 1..Len(CurrentChunks(f)) :
               x = ItemOf(CurrentChunks(f)[k], f, x.metadata.category, x.dim)

\* C18: after a successful reindex the index holds a chunk only if it is a
\* chunk of a file now placed in a retrieval bucket, tagged with that
\* filename, bucket and ordinal, and it holds every such chunk.
C18_IndexIsBucketChunks ==
    ReindexSucceeded =>
        /\ \A x \in index.items : IsCurrent(x)
        /\ \A f \in DOMAIN files : PlacedIn(f) # {} =>
               \A k \in 1..Len(CurrentChunks(f)) :
                   \E x \in index.items : x.id = <<f, CurrentChunks(f)[k].chunk_id>>

Modes == {"context_window", "vector_embeddings"}
ModeInputs == Modes \cup {"hybrid"}

UpdateContextMode ==
    /\ asm.pc = "idle"
    /\ \E mode \in ModeInputs :
        settings' = IF mode \in Modes
                    THEN [k \in DOMAIN settings \cup {"context_mode"} |->
                            IF k = "context_mode" THEN mode ELSE settings[k]]
                    ELSE settings
    /\ UNCHANGED <<registry, svc, ck, index, rx, asm, sq, chat, tailing>>

\* fault: the index is searched in every mode
AlwaysSearch(mode) == TRUE

\* "if context_mode == 'vector_embeddings':"
UsesSearch(mode) == mode = "vector_embeddings"

\* f"--- {filename} ---\n{content}\n" and its (LIVE) variant, a text being
\* a sequence of characters and the filename one element of it
BasePart(filename, content) == <<"--- ", filename, " ---", NL>> \o content \o <<NL>>
LivePart(filename, content) == <<"--- ", filename, " (LIVE) ---", NL>> \o content \o <<NL>>

\* "\n".join(parts)
RECURSIVE JoinLines(_)
JoinLines(parts) ==
    IF parts = <<>> THEN <<>>
    ELSE IF Len(parts) = 1 THEN parts[1]
    ELSE parts[1] \o <<NL>> \o JoinLines(Tail(parts))

\* the loops over base_context and over streaming_sessions.keys(): a part
\* for every listed name that is a file
RECURSIVE ContextParts(_, _)
ContextParts(names, live) ==
    IF names = <<>> THEN <<>>
    ELSE LET filename == Head(names)
             rest == ContextParts(Tail(names), live)
         IN  IF filename \notin DOMAIN files THEN rest
             ELSE IF live THEN <<LivePart(filename, files[filename])>> \o rest
             ELSE <<BasePart(filename, files[filename])>> \o rest

\* the orders in which a dict may yield the keys S
Orderings(S) ==
    {order \in [1..Cardinality(S) -> S] :
        \A i, j \in 1..Cardinality(S) : i # j => order[i] # order[j]}

\* LLMService.get_context_files, the session keys coming in the order keys
get_context_files(keys) ==
    JoinLines(ContextParts(cfg.base_context, FALSE) \o ContextParts(keys, TRUE))

\* the header and body search_context gives a retrieved chunk
SourcePart(x) ==
    <<"--- Source: ", x.metadata.filename, " [", x.metadata.category, "] (Chunk #",
      ToString(x.metadata.chunk_id + 1), ") ---", NL>> \o x.document \o <<NL>>

\* the string search_context returns for the chunks hits, in that order
SearchText(hits) == JoinLines([k \in 1..Len(hits) |-> SourcePart(hits[k])])

\* stream_message: the two labelled parts that are not empty, a blank line
\* between them
CombinedContext(always_in_context, semantic_results) ==
    LET always == IF always_in_context = <<>> THEN <<>>
                  ELSE <<"=== ALWAYS IN CONTEXT FILES ===", NL>> \o always_in_context
        semantic == IF semantic_results = <<>> THEN <<>>
                    ELSE <<"=== SEMANTIC SEARCH RESULTS ===", NL>> \o semantic_results
    IN  IF always # <<>> /\ semantic # <<>> THEN always \o <<NL, NL>> \o semantic
        ELSE always \o semantic

\* generate_response: the system prompt, then the base context, then the
\* context passed by the caller, each under its label when not empty
SystemText(context_files, context) ==
    <<"SYSTEM_PROMPT">>
    \o (IF context_files = <<>> THEN <<>>
        ELSE <<NL, NL, "Base context:", NL>> \o context_files)
    \o (IF context = <<>> THEN <<>>
        ELSE <<NL, NL, "Relevant context from semantic search:", NL>> \o context)

\* stream_message reads the context mode
AssembleBegin ==
    /\ asm.pc = "idle" /\ rx.pc = "idle"
    /\ LET mode == SettingsGet("context_mode", "context_window")
       IN  asm' = [IdleAssemble EXCEPT !.mode = mode,
                     !.pc = IF UsesSearch(mode) THEN "search" ELSE "prompt"]
    /\ UNCHANGED <<registry, settings, svc, ck, index, rx, sq, chat, tailing>>

\* vector mode: get_context_files, then search_context on the initialized
\* service: nothing from an empty collection or when encode or query raises,
\* else min(top_k, count) of the stored chunks
AssembleSearch ==
    /\ asm.pc = "search"
    /\ svc.embeddings_initialized
    /\ \E keys \in Orderings(DOMAIN cfg.streaming_sessions),
          hits \in SUBSET index.items :
        /\ \/ hits = {}
           \/ /\ svc.chunks_to_retrieve <= Cardinality(index.items)
              /\ Cardinality(hits) = svc.chunks_to_retrieve
           \/ /\ svc.chunks_to_retrieve > Cardinality(index.items)
              /\ hits = index.items
        /\ \E order \in Orderings(hits) :
            asm' = [asm EXCEPT !.pc = "prompt", !.searched = TRUE,
                               !.always_in_context = get_context_files(keys),
                               !.semantic_results = hits,
                               !.context = CombinedContext(get_context_files(keys),
                                                           SearchText(order))]
    /\ UNCHANGED <<registry, settings, svc, ck, index, rx, sq, chat, tailing>>

\* vector mode: search_context calls initialize, which raises
AssembleRaise ==
    /\ asm.pc = "search"
    /\ ~svc.embeddings_initialized
    /\ asm' = [asm EXCEPT !.pc = "failed", !.searched = TRUE]
    /\ UNCHANGED <<registry, settings, svc, ck, index, rx, sq, chat, tailing>>

\* generate_response: "context_files = self.get_context_files()"
AssemblePrompt ==
    /\ asm.pc = "prompt"
    /\ \E keys \in Orderings(DOMAIN cfg.streaming_sessions) :
        asm' = [asm EXCEPT !.pc = "built", !.context_files = get_context_files(keys),
                           !.system_prompt = SystemText(get_context_files(keys), asm.context)]
    /\ UNCHANGED <<registry, settings, svc, ck, index, rx, sq, chat, tailing>>

\* the turn is answered
AssembleDone ==
    /\ asm.pc \in {"built", "failed"}
    /\ asm' = IdleAssemble
    /\ UNCHANGED <<registry, settings, svc, ck, index, rx, sq, chat, tailing>>

\* Chat turns between the operations that change the base corpus and the
\* open streaming sessions, one request at a time.
AssembleTargets == {"base_context", "vectorized:books"}

NextAssemble ==
    \/ \E w \in SerialWorkers :
        \/ AllIdle /\ asm.pc = "idle" /\ BeginUpload(w, IndexBatches, AssembleTargets)
        \/ AllIdle /\ asm.pc = "idle" /\ BeginStart(w, FileNames)
        \/ AllIdle /\ asm.pc = "idle" /\ BeginAppend(w, ConcTexts)
        \/ UploadCheck(w) \/ UploadStore(w) \/ UploadLoad(w) \/ UploadSave(w)
        \/ StartLoad(w) \/ StartExists(w) \/ StartCreate(w) \/ StartSave(w)
        \/ AppendLoad(w) \/ AppendSize(w) \/ AppendLock(w) \/ AppendWrite(w)
        \/ AppendUnlock(w) \/ AppendSave(w) \/ AppendRead(w)
        \/ Return(w)
    \/ UpdateContextMode
    \/ Initialize
    \/ AllIdle /\ AssembleBegin
    \/ AssembleSearch \/ AssembleRaise \/ AssemblePrompt \/ AssembleDone

SpecAssemble == Init /\ [][NextAssemble]_vars

\* Chat turns over an index that is built from uploaded files, one request
\* at a time.
NextRetrieve ==
    \/ \E w \in SerialWorkers :
        \/ AllIdle /\ asm.pc = "idle" /\ rx.pc = "idle"
              /\ BeginUpload(w, IndexBatches, AssembleTargets)
        \/ UploadCheck(w) \/ UploadStore(w) \/ UploadLoad(w) \/ UploadSave(w)
        \/ Return(w)
    \/ UpdateContextMode
    \/ Initialize
    \/ AllIdle /\ asm.pc = "idle" /\ ReindexBegin
    \/ ReindexClear \/ ReindexCreate \/ ReindexLoad \/ ReindexFile \/ ReindexFinish \/ ReindexDone
    \/ AllIdle /\ AssembleBegin
    \/ AssembleSearch \/ AssembleRaise \/ AssemblePrompt \/ AssembleDone

SpecRetrieve == Init /\ [][NextRetrieve]_vars

\* ------------------------------------------ claims on the chat context ---
\* a turn in direct (context_window) mode has its context
DirectBuilt == asm.pc = "built" /\ asm.mode = "context_window"

\* the listed names that are files, in order
RECURSIVE Present(_)
Present(names) ==
    IF names = <<>> THEN <<>>
    ELSE IF Head(names) \in DOMAIN files THEN <<Head(names)>> \o Present(Tail(names))
    ELSE Present(Tail(names))

\* "filename: content" for every file, one after the other
RECURSIVE PlainConcat(_)
PlainConcat(names) ==
    IF names = <<>> THEN <<>>
    ELSE <<Head(names), ": ">> \o files[Head(names)] \o PlainConcat(Tail(names))

\* C20 as stated: in direct mode the context is the base-corpus files
\* concatenated, each as "filename: content" ("intro.md: Hello."), and the
\* index is not searched.
C20_DirectPlainConcat ==
    DirectBuilt =>
        /\ ~asm.searched
        /\ asm.context_files = PlainConcat(Present(cfg.base_context))

Occurs(part, text) ==
    \E p \in 1..(Len(text) - Len(part) + 1) : SubSeq(text, p, p + Len(part) - 1) = part

RECURSIVE ContentChars(_)
ContentChars(names) ==
    IF names = <<>> THEN 0 ELSE Len(files[Head(names)]) + ContentChars(Tail(names))

\* C20, amended: in direct mode the index is not searched and the context is
\* made of one block per base-corpus file, "--- filename ---", a line break,
\* the content and a line break, and one such block marked "(LIVE)" per file
\* of an open streaming session, the blocks separated by one line break and
\* nothing else; a base corpus of one file gives exactly its block.
C20_DirectFramedFiles ==
    DirectBuilt =>
        LET base == Present(cfg.base_context)
            live == {f \in DOMAIN cfg.streaming_sessions : f \in DOMAIN files}
            blocks == Len(base) + Cardinality(live)
            text == asm.context_files
        IN  /\ ~asm.searched
            /\ asm.semantic_results = {} /\ asm.always_in_context = <<>>
            /\ \A k \in 1..Len(base) :
                   Occurs(<<"--- ", base[k], " ---", NL>> \o files[base[k]] \o <<NL>>, text)
            /\ \A f \in live :
                   Occurs(<<"--- ", f, " (LIVE) ---", NL>> \o files[f] \o <<NL>>, text)
            /\ Cardinality({p \in 1..Len(text) : text[p] = "--- "}) = blocks
            /\ Len(text) = ContentChars(base)
                           + ContentChars(Present(CHOOSE o \in Orderings(live) : TRUE))
                           + 5 * blocks + (IF blocks = 0 THEN 0 ELSE blocks - 1)
            /\ (Len(base) = 1 /\ live = {}) =>
                   text = <<"--- ", base[1], " ---", NL>> \o files[base[1]] \o <<NL>>

\* a direct-mode turn, the mode having been set by the administrator, over a
\* base-corpus file and a non-empty file that is being streamed
C20_Witness ==
    /\ DirectBuilt
    /\ "context_mode" \in DOMAIN settings
    /\ Present(cfg.base_context) # <<>>
    /\ \E f \in DOMAIN cfg.streaming_sessions : f \in DOMAIN files /\ files[f] # <<>>

\* the files the configuration lists as base corpus or as being streamed
AlwaysIncluded ==
    {cfg.base_context[k] : k \in 1..Len(cfg.base_context)} \cup DOMAIN cfg.streaming_sessions

BlocksOf(f, text) == {p \in 1..Len(text) : text[p] = f}

\* C21: the context built for a turn holds exactly one block for every
\* base-corpus file and every file with an open streaming session, and the
\* block carries the content the file has now.
C21_EachFileOnce ==
    asm.pc = "built" =>
        \A f \in AlwaysIncluded :
            /\ f \in DOMAIN files
            /\ Cardinality(BlocksOf(f, asm.context_files)) = 1
            /\ \A p \in BlocksOf(f, asm.context_files) :
                   SubSeq(asm.context_files, p + 3, p + 3 + Len(files[f])) = files[f] \o <<NL>>

\* a turn in retrieval (vector_embeddings) mode has its system text
RetrievalBuilt == asm.pc = "built" /\ asm.mode = "vector_embeddings"

\* where the block of file f starts, and where the retrieved chunks start
BaseBlocksOf(f, text) ==
    {p \in 1..(Len(text) - 1) : text[p] = "--- " /\ text[p + 1] = f}
SourceBlocks(text) == {p \in 1..Len(text) : text[p] = "--- Source: "}

\* C22: in retrieval mode the system text holds the block of every base
\* file exactly once, then at most K retrieved chunks, each with its
\* filename, bucket and ordinal, all of them after the base blocks.
C22_BaseOnceThenChunks ==
    RetrievalBuilt =>
        LET text == asm.system_prompt
        IN  /\ \A f \in AlwaysIncluded : Cardinality(BaseBlocksOf(f, text)) = 1
            /\ Cardinality(SourceBlocks(text)) <= svc.chunks_to_retrieve
            /\ \A f \in AlwaysIncluded : \A p \in BaseBlocksOf(f, text) :
                   \A q \in SourceBlocks(text) : p < q
            /\ \A x \in asm.semantic_results : Occurs(SourcePart(x), text)

\* ------------------------------- the adapter with no system role ---
\* the conversations and the system texts an adapter may be given: the last
\* MaxHistory messages of a thread, the newest one the user's
MaxHistory == 3
Roles == {"user", "assistant"}
Contents == {<<"h", "i">>, <<"x">>}
Turns == [role : Roles, content : Contents]
Histories ==
    {h \in UNION {[1..n -> Turns] : n \in 1..MaxHistory} : h[Len(h)].role = "user"}
SystemTexts == {<<>>, <<"S", "Y", "S">>}

\* fault: the prompt goes to the first message, whoever wrote it
FirstIndex(messages) == 1

\* "for i, msg in enumerate(formatted_messages): if msg['role'] == 'user'":
\* the index of the first user message, 0 when there is none
FirstUser(messages) ==
    LET users == {i \in 1..Len(messages) : messages[i].role = "user"}
    IN  IF users = {} THEN 0 ELSE CHOOSE i \in users : \A j \in users : i <= j

\* the system prompt, a blank line, and the content of the first user message
Prepended(messages, system_prompt) ==
    LET i == FirstUser(messages)
    IN  IF system_prompt = <<>> \/ messages = <<>> \/ i = 0 THEN messages
        ELSE [messages EXCEPT ![i].content = system_prompt \o <<NL, NL>> \o @]

\* "while formatted_messages and formatted_messages[0]['role'] == 'assistant': pop(0)"
RECURSIVE DropLeading(_)
DropLeading(messages) ==
    IF messages # <<>> /\ Head(messages).role = "assistant" THEN DropLeading(Tail(messages))
    ELSE messages

\* fault: no two roles are ever taken to be the same
NeverSameRole(a, b) == FALSE

\* "cleaned_messages[-1]['role'] == msg['role']"
SameRole(a, b) == a.role = b.role

\* the loop that builds cleaned_messages, from message k on
RECURSIVE Merged(_, _, _)
Merged(messages, k, cleaned) ==
    IF k > Len(messages) THEN cleaned
    ELSE LET msg == messages[k]
             n == Len(cleaned)
         IN  IF cleaned # <<>> /\ SameRole(cleaned[n], msg)
             THEN Merged(messages, k + 1,
                         [cleaned EXCEPT ![n].content = @ \o <<NL, NL>> \o msg.content])
             ELSE Merged(messages, k + 1, Append(cleaned, msg))

\* _generate_perplexity is called; formatted_messages is a copy of messages
FormatCall(histories, texts) ==
    /\ px.pc = "idle"
    /\ \E messages \in histories, system_prompt \in texts :
        px' = [IdleFormat EXCEPT !.pc = "prepend", !.messages = messages,
                                 !.system_prompt = system_prompt,
                                 !.formatted_messages = messages]
    /\ UNCHANGED <<registry, service, tailing, turn, db>>

FormatPrepend ==
    /\ px.pc = "prepend"
    /\ px' = [px EXCEPT !.pc = "drop",
                !.formatted_messages = Prepended(@, px.system_prompt)]
    /\ UNCHANGED <<registry, service, tailing, turn, db>>

FormatDrop ==
    /\ px.pc = "drop"
    /\ px' = [px EXCEPT !.pc = "merge", !.formatted_messages = DropLeading(@)]
    /\ UNCHANGED <<registry, service, tailing, turn, db>>

FormatMerge ==
    /\ px.pc = "merge"
    /\ px' = [px EXCEPT !.pc = "sent", !.formatted_messages = Merged(@, 1, <<>>)]
    /\ UNCHANGED <<registry, service, tailing, turn, db>>

\* fault: the quotient alone
QuotientOnly(chars) == chars \div 4

\* "max(1, output_chars // 4)", "max(1, input_chars // 4)"
Estimate(chars) == IF chars \div 4 < 1 THEN 1 ELSE chars \div 4

\* "sum(len(msg['content']) for msg in formatted_messages)"
RECURSIVE ContentLen(_)
ContentLen(messages) ==
    IF messages = <<>> THEN 0
    ELSE Len(Head(messages).content) + ContentLen(Tail(messages))

\* fault: the characters of the messages alone
SentChars(formatted_messages, system_prompt) == ContentLen(formatted_messages)

\* "input_chars = sum(...); input_chars += len(system_prompt) if system_prompt else 0"
InputChars(formatted_messages, system_prompt) ==
    ContentLen(formatted_messages) + Len(system_prompt)

\* the stream has ended with text and without usage from the provider:
\* "estimated_input = max(1, input_chars // 4)"
FormatEstimate ==
    /\ px.pc = "sent"
    /\ px' = [px EXCEPT !.pc = "estimated",
                !.input_tokens = Estimate(InputChars(px.formatted_messages, px.system_prompt))]
    /\ UNCHANGED <<registry, service, tailing, turn, db>>

\* the request has gone out with formatted_messages and the call is over
FormatDone ==
    /\ px.pc \in {"sent", "estimated"}
    /\ px' = IdleFormat
    /\ UNCHANGED <<registry, service, tailing, turn, db>>

NextFormat ==
    \/ FormatCall(Histories, SystemTexts)
    \/ FormatPrepend \/ FormatDrop \/ FormatMerge \/ FormatEstimate \/ FormatDone

SpecFormat == Init /\ [][NextFormat]_vars

\* ------------------------------------------------- a chat turn ---
\* the provider's answer to one request: the fault it meets, the frames it
\* sends (text, usage counts, or both) and, for Claude, whether the final
\* message has usage
MaxFrames == 2
MaxTurns == 2
PromptChars == 9
Models == {"claude", "gemini", "grok", "perplexity"}
OpenAIFormat == {"grok", "perplexity"}
FrameTexts == {<<>>, <<"a", "b">>, <<"a", "b", "c", "d", "e", "f">>}
Frames == [content : FrameTexts, usage : BOOLEAN]
Scripts ==
    {sc \in [fault : {"none", "no_key", "http_error", "raise"},
             frames : UNION {[1..n -> Frames] : n \in 0..MaxFrames},
             final_usage : BOOLEAN] :
        sc.fault \in {"no_key", "http_error"} => (sc.frames = <<>> /\ ~sc.final_usage)}

\* the counts a provider reports
ProviderUsage == [prompt_tokens |-> 9, completion_tokens |-> 2]

KeyText == <<"API key not configured.">>
ErrorText == <<"[Error]">>
SorryText == <<"Sorry, I encountered an error">>

\* "usage_data[...] = usage.get(...); usage_data['captured'] = True"
Captured(usage_data, usage) ==
    [usage_data EXCEPT !.captured = TRUE, !.input_tokens = usage.prompt_tokens,
                       !.output_tokens = usage.completion_tokens]

\* get_usage: "return usage_data if usage_data['captured'] else None", the
\* result as a set of at most one value
get_usage(t) == IF t.usage_data.captured THEN {t.usage_data} ELSE {}

\* the usage part of frame k, which Claude's text_stream does not show
WithUsageOf(t, k) ==
    IF t.current_model # "claude" /\ t.script.frames[k].usage
    THEN [t EXCEPT !.usage_data = Captured(@, ProviderUsage)]
    ELSE t

\* the end of the provider's frames: Claude reads the final message, Grok and
\* Perplexity estimate when nothing was captured and text came
AtEnd(t) ==
    IF t.current_model = "claude"
    THEN IF t.script.final_usage
         THEN [t EXCEPT !.usage_data = Captured(@, ProviderUsage)] ELSE t
    ELSE IF t.current_model \in OpenAIFormat /\ ~t.usage_data.captured /\ t.output_chars > 0
    THEN [t EXCEPT !.estimated = TRUE,
                   !.usage_data = [@ EXCEPT !.captured = TRUE,
                                            !.input_tokens = Estimate(PromptChars),
                                            !.output_tokens = Estimate(t.output_chars)]]
    ELSE t

\* next(stream): the adapter's generator runs to its next yield, to its end,
\* or to an exception it does not catch; out tells which
RECURSIVE Resume(_)
Resume(t) ==
    LET yield(u, text) == [u EXCEPT !.gen = "live", !.chunk = text] @@ [out |-> "chunk"]
        stop(u) == [u EXCEPT !.gen = "ended", !.chunk = <<>>] @@ [out |-> "stop"]
        frames == t.script.frames
    IN  IF t.kind = "iter"
        THEN IF t.gen = "fresh"
             THEN yield(t, IF t.script.fault = "no_key" THEN KeyText ELSE SorryText)
             ELSE stop(t)
        ELSE IF t.gen = "closing" THEN stop(t)
        ELSE IF t.script.fault = "http_error"
        THEN [yield(t, ErrorText) EXCEPT !.gen = "closing"]
        ELSE IF t.pending
        THEN Resume([WithUsageOf(t, t.i + 1) EXCEPT !.pending = FALSE, !.i = t.i + 1])
        ELSE IF t.i < Len(frames)
        THEN IF frames[t.i + 1].content # <<>>
             THEN yield([t EXCEPT !.pending = TRUE,
                                  !.output_chars = IF t.current_model \in OpenAIFormat
                                                   THEN @ + Len(frames[t.i + 1].content)
                                                   ELSE @],
                        frames[t.i + 1].content)
             ELSE Resume([WithUsageOf(t, t.i + 1) EXCEPT !.i = t.i + 1])
        ELSE IF t.script.fault = "raise"
        THEN IF t.current_model \in OpenAIFormat
             THEN [yield(t, ErrorText) EXCEPT !.gen = "closing"]
             ELSE [t EXCEPT !.gen = "ended"] @@ [out |-> "raise"]
        ELSE stop(AtEnd(t))

\* the locals kept from a Resume result
LocalsOf(r) == [k \in DOMAIN r \ {"out"} |-> r[k]]

\* fault: every write reaches the client
AlwaysDelivered(t) == TRUE

\* a yield of generate(): the event is written unless the client is gone,
\* and then the generator is closed where it stands
Delivered(t) == t.connected

\* whether the provider's sequence still has a text to give
TokensLeft(t) ==
    \/ /\ t.pc = "call"
       /\ \/ t.script.fault # "none"
          \/ \E k \in 1..Len(t.script.frames) : t.script.frames[k].content # <<>>
    \/ t.pc \in {"str_yield", "err_yield", "relay"}
    \/ /\ t.pc = "next"
       /\ Resume(t).out # "stop"

\* ChatMessage.create: the new row and its id
Created(role, content, n) ==
    [messages |-> Append(db.messages,
                         [id |-> Len(db.messages) + 1, role |-> role, content |-> content,
                          turn |-> n]),
     usage |-> db.usage]

\* stream_message up to "def generate()": the user's message is stored
TurnBegin(models, scripts) ==
    /\ turn.pc = "idle"
    /\ Cardinality({k \in 1..Len(db.messages) : db.messages[k].role = "user"}) < MaxTurns
    /\ \E model \in models, script \in scripts :
        /\ script.fault = "http_error" => model \in OpenAIFormat
        /\ script.final_usage => model = "claude"
        /\ turn' = [IdleTurn EXCEPT !.pc = "call", !.current_model = model,
                                    !.script = script,
                                    !.n = 1 + Cardinality({k \in 1..Len(db.messages) :
                                                            db.messages[k].role = "user"})]
    /\ db' = Created("user", <<"q">>, turn'.n)
    /\ UNCHANGED <<registry, service, tailing, px>>

\* generate_response: a string when Claude or Gemini has no key, a bare
\* generator when Grok or Perplexity has none, else (stream, get_usage)
TurnCall ==
    /\ turn.pc = "call"
    /\ turn' = IF turn.script.fault = "no_key"
               THEN IF turn.current_model \in OpenAIFormat
                    THEN [turn EXCEPT !.pc = "next", !.kind = "iter"]
                    ELSE [turn EXCEPT !.pc = "str_yield", !.kind = "str", !.chunk = KeyText]
               ELSE [turn EXCEPT !.pc = "next", !.kind = "tuple"]
    /\ UNCHANGED <<registry, service, tailing, px, db>>

\* "yield {'content': result, 'done': True}"
TurnStrYield ==
    /\ turn.pc = "str_yield"
    /\ turn' = IF Delivered(turn)
               THEN [turn EXCEPT !.pc = "str_persist",
                       !.events = Append(@, [done |-> TRUE, has_id |-> FALSE, message_id |-> 0])]
               ELSE [turn EXCEPT !.pc = "closed"]
    /\ UNCHANGED <<registry, service, tailing, px, db>>

\* "ChatMessage.create(thread_id, 'assistant', result)"
TurnStrPersist ==
    /\ turn.pc = "str_persist"
    /\ db' = Created("assistant", turn.chunk, turn.n)
    /\ turn' = [turn EXCEPT !.pc = "closed"]
    /\ UNCHANGED <<registry, service, tailing, px>>

\* "for chunk in stream": the next chunk is appended to full_response, or the
\* loop ends, or the exception of the adapter reaches "except Exception"
TurnNext ==
    /\ turn.pc = "next"
    /\ LET r == Resume(turn)
       IN  turn' = CASE r.out = "chunk" ->
                         [LocalsOf(r) EXCEPT !.pc = "relay", !.full_response = @ \o r.chunk]
                     [] r.out = "stop" -> [LocalsOf(r) EXCEPT !.pc = "persist", !.drained = TRUE]
                     [] OTHER -> [LocalsOf(r) EXCEPT !.pc = "err_yield", !.drained = TRUE,
                                                     !.chunk = SorryText]
    /\ UNCHANGED <<registry, service, tailing, px, db>>

\* "yield {'content': chunk, 'done': False}"
TurnRelay ==
    /\ turn.pc = "relay"
    /\ turn' = IF Delivered(turn)
               THEN [turn EXCEPT !.pc = "next",
                       !.events = Append(@, [done |-> FALSE, has_id |-> FALSE, message_id |-> 0])]
               ELSE [turn EXCEPT !.pc = "closed"]
    /\ UNCHANGED <<registry, service, tailing, px, db>>

\* after the loop: the message is stored when there is text, and with the
\* (stream, get_usage) form the usage is logged when get_usage gives one
TurnPersist ==
    /\ turn.pc = "persist"
    /\ IF turn.full_response = <<>>
       THEN /\ db' = db
            /\ turn' = [turn EXCEPT !.pc = "marker"]
       ELSE LET stored == Created("assistant", turn.full_response, turn.n)
                id == Len(stored.messages)
                rows == IF turn.kind = "tuple"
                        THEN {[message_id |-> id, model_used |-> turn.current_model,
                               input_tokens |-> u.input_tokens,
                               output_tokens |-> u.output_tokens,
                               cache_creation_tokens |-> u.cache_creation_tokens,
                               cache_read_tokens |-> u.cache_read_tokens] : u \in get_usage(turn)}
                        ELSE {}
            IN  /\ db' = [stored EXCEPT !.usage =
                            IF rows = {} THEN @ ELSE Append(@, CHOOSE row \in rows : TRUE)]
                /\ turn' = [turn EXCEPT !.pc = "marker", !.message_id = id]
    /\ UNCHANGED <<registry, service, tailing, px>>

\* "yield {'content': '', 'done': True, 'message_id': message_id}"
TurnMarker ==
    /\ turn.pc = "marker"
    /\ turn' = IF Delivered(turn)
               THEN [turn EXCEPT !.pc = "closed",
                       !.events = Append(@, [done |-> TRUE, has_id |-> TRUE,
                                             message_id |-> turn.message_id])]
               ELSE [turn EXCEPT !.pc = "closed"]
    /\ UNCHANGED <<registry, service, tailing, px, db>>

\* "except Exception": "yield {'content': error_msg, 'done': True}"
TurnErrYield ==
    /\ turn.pc = "err_yield"
    /\ turn' = IF Delivered(turn)
               THEN [turn EXCEPT !.pc = "err_persist",
                       !.events = Append(@, [done |-> TRUE, has_id |-> FALSE, message_id |-> 0])]
               ELSE [turn EXCEPT !.pc = "closed"]
    /\ UNCHANGED <<registry, service, tailing, px, db>>

\* "ChatMessage.create(thread_id, 'assistant', error_msg)"
TurnErrPersist ==
    /\ turn.pc = "err_persist"
    /\ db' = Created("assistant", turn.chunk, turn.n)
    /\ turn' = [turn EXCEPT !.pc = "closed"]
    /\ UNCHANGED <<registry, service, tailing, px>>

\* the client goes away while the turn is being answered
Disconnect ==
    /\ turn.pc \notin {"idle", "closed"}
    /\ turn.connected
    /\ turn' = [turn EXCEPT !.connected = FALSE, !.left = TokensLeft(turn)]
    /\ UNCHANGED <<registry, service, tailing, px, db>>

\* the generator is finished or closed
TurnEnd ==
    /\ turn.pc = "closed"
    /\ turn' = IdleTurn
    /\ UNCHANGED <<registry, service, tailing, px, db>>

NextTurn ==
    \/ TurnBegin(Models, Scripts)
    \/ TurnCall \/ TurnStrYield \/ TurnStrPersist \/ TurnNext \/ TurnRelay
    \/ TurnPersist \/ TurnMarker \/ TurnErrYield \/ TurnErrPersist
    \/ Disconnect \/ TurnEnd

SpecTurn == Init /\ [][NextTurn]_vars

\* ------------------------------------------- claims on the adapter ---
HasUser(messages) == \E i \in 1..Len(messages) : messages[i].role = "user"

StartsWith(text, prefix) ==
    Len(text) >= Len(prefix) /\ SubSeq(text, 1, Len(prefix)) = prefix

\* C23: with a user turn in the history and a non-empty system text, the
\* prepend changes the first user turn to system text, blank line, original
\* content and changes no other turn; the outgoing list has no system-role
\* entry and opens with that user turn; the history of the single user turn
\* "hi" goes out as the single user message "SYS\n\nhi".
C23_SystemTextInFirstUserTurn ==
    (px.pc \in {"drop", "sent"} /\ px.system_prompt # <<>> /\ HasUser(px.messages)) =>
        LET first == CHOOSE i \in 1..Len(px.messages) :
                        /\ px.messages[i].role = "user"
                        /\ \A j \in 1..(i - 1) : px.messages[j].role # "user"
            content == px.system_prompt \o <<NL, NL>> \o px.messages[first].content
            out == px.formatted_messages
        IN  /\ \A k \in 1..Len(out) : out[k].role # "system"
            /\ px.pc = "drop" =>
                  /\ Len(out) = Len(px.messages)
                  /\ out[first] = [role |-> "user", content |-> content]
                  /\ \A i \in 1..Len(out) : i # first => out[i] = px.messages[i]
            /\ px.pc = "sent" =>
                  /\ out[1].role = "user" /\ StartsWith(out[1].content, content)
                  /\ Len(px.messages) = 1 => out = <<[role |-> "user", content |-> content]>>

\* the prompt has been prepended to a user turn that follows an assistant turn
C23_Witness ==
    /\ px.pc = "sent" /\ px.system_prompt # <<>>
    /\ px.messages[1].role = "assistant"
    /\ Len(px.formatted_messages) = 1

\* the messages that remain when the leading assistant turns are gone, the
\* first of them carrying the system text
Kept ==
    LET first == IF HasUser(px.messages)
                 THEN CHOOSE i \in 1..Len(px.messages) :
                        /\ px.messages[i].role = "user"
                        /\ \A j \in 1..(i - 1) : px.messages[j].role # "user"
                 ELSE Len(px.messages) + 1
        rest == SubSeq(px.messages, first, Len(px.messages))
    IN  IF rest = <<>> \/ px.system_prompt = <<>> THEN rest
        ELSE [rest EXCEPT ![1].content = px.system_prompt \o <<NL, NL>> \o @]

\* where a run of turns of one role begins, and where the run from s ends
RunStarts(messages) ==
    {i \in 1..Len(messages) : i = 1 \/ messages[i].role # messages[i - 1].role}
RunEnd(messages, s) ==
    CHOOSE e \in s..Len(messages) :
        /\ \A i \in s..e : messages[i].role = messages[s].role
        /\ e = Len(messages) \/ messages[e + 1].role # messages[s].role

RECURSIVE BlankJoin(_, _, _)
BlankJoin(messages, s, e) ==
    IF s = e THEN messages[s].content
    ELSE messages[s].content \o <<NL, NL>> \o BlankJoin(messages, s + 1, e)

\* C24: the outgoing list does not begin with an assistant turn, has no two
\* neighbours of one role, and has one message per run of same-role turns of
\* the history (leading assistant turns apart) whose content is the contents
\* of the run joined by blank lines, in order.
C24_StrictAlternation ==
    px.pc = "sent" =>
        LET out == px.formatted_messages
            starts == RunStarts(Kept)
        IN  /\ out # <<>> => out[1].role # "assistant"
            /\ \A k \in 1..(Len(out) - 1) : out[k].role # out[k + 1].role
            /\ Len(out) = Cardinality(starts)
            /\ \A s \in starts :
                   LET k == Cardinality({r \in starts : r <= s})
                   IN  /\ out[k].role = Kept[s].role
                       /\ out[k].content = BlankJoin(Kept, s, RunEnd(Kept, s))

\* a leading assistant turn was dropped and two user turns became one
C24_Witness ==
    /\ px.pc = "sent"
    /\ Len(px.messages) = 3
    /\ px.messages[1].role = "assistant"
    /\ px.messages[2].role = "user"
    /\ Len(px.formatted_messages) = 1

\* ------------------------------------------ claims on the chat turn ---
\* the characters of text the provider sends in this turn, frame by frame
RECURSIVE TextChars(_)
TextChars(frames) ==
    IF frames = <<>> THEN 0 ELSE Len(Head(frames).content) + TextChars(Tail(frames))

NoUsageReported ==
    /\ ~turn.script.final_usage
    /\ \A k \in 1..Len(turn.script.frames) : ~turn.script.frames[k].usage

\* the assistant messages and the usage rows written for this turn
Answers == {k \in 1..Len(db.messages) :
                db.messages[k].role = "assistant" /\ db.messages[k].turn = turn.n}
UsageRows == {k \in 1..Len(db.usage) : db.usage[k].message_id \in Answers}

\* C25 as stated: when the exhausted stream has sent n > 0 characters and the
\* provider reported no usage, the accessor gives max(1, n // 4) output tokens.
C25_EstimateWhenNoUsage ==
    LET n == TextChars(turn.script.frames)
    IN  (turn.drained /\ n > 0 /\ NoUsageReported) =>
            \E u \in get_usage(turn) : u.output_tokens = (IF n < 4 THEN 1 ELSE n \div 4)

\* C25, amended: for Grok and Perplexity, when the stream has ended without an
\* error having sent n > 0 characters and no usage, the accessor gives
\* max(1, n // 4) output tokens; for Claude and Gemini, and for a stream of
\* Grok or Perplexity that broke off, it gives nothing.
C25_EstimateAfterCleanStream ==
    LET n == TextChars(turn.script.frames)
        clean == turn.current_model \in OpenAIFormat /\ turn.script.fault = "none"
    IN  (turn.drained /\ turn.kind = "tuple" /\ n > 0 /\ NoUsageReported) =>
            /\ clean => \E u \in get_usage(turn) :
                            u.output_tokens = (IF n < 4 THEN 1 ELSE n \div 4)
            /\ ~clean => get_usage(turn) = {}

\* a stream of Grok of twelve characters in two frames has been estimated at
\* three tokens
C25_Witness ==
    /\ turn.drained /\ turn.current_model = "grok" /\ turn.estimated
    /\ TextChars(turn.script.frames) = 12
    /\ \E u \in get_usage(turn) : u.output_tokens = 3

\* C26: a usage value that comes from the estimate carries a mark saying so,
\* in what the accessor returns and in the row written from it.
C26_EstimateIsMarked ==
    turn.estimated =>
        /\ \A u \in get_usage(turn) : "estimated" \in DOMAIN u
        /\ \A k \in UsageRows : "estimated" \in DOMAIN db.usage[k]

\* C27: as long as the token sequence of a (stream, get_usage) result is not
\* exhausted, before the first token or between tokens, the accessor gives
\* nothing.
C27_NoUsageBeforeExhausted ==
    (turn.kind = "tuple" /\ turn.pc \in {"next", "relay"}) => get_usage(turn) = {}

\* C28: a turn whose adapter failed, relayed to its end, has exactly one
\* assistant message, which carries the error text, and no usage row.
C28_FailedTurnOneMessageNoUsage ==
    (turn.pc = "closed" /\ turn.connected /\ turn.script.fault # "none") =>
        /\ Cardinality(Answers) = 1
        /\ \A k \in Answers : \E p \in 1..Len(db.messages[k].content) :
               <<db.messages[k].content[p]>> \in {KeyText, ErrorText, SorryText}
        /\ UsageRows = {}

C30_MarkerCarriesMessageId ==
    (turn.pc = "closed" /\ turn.connected) =>
        LET n == Len(turn.events)
        IN  /\ n > 0
            /\ Cardinality({k \in 1..n : turn.events[k].done}) = 1
            /\ turn.events[n].done
            /\ turn.events[n].has_id
            /\ Answers = {turn.events[n].message_id}

\* ------------------------------------------------ watch_file (live tail) ---
\* the client's copy of the file: a "full" event replaces it, an "append"
\* event is added at its end
Rebuilt(copy, type, sent) ==
    CASE type = "full" -> sent
      [] type = "append" -> copy \o sent
      [] OTHER -> copy

\* a data event is written to the connection
Emit(w, type, sent) ==
    [w EXCEPT !.type = type, !.sent = sent, !.events = @ + 1,
              !.copy = Rebuilt(w.copy, type, sent)]

\* "except Exception as e": an error event, then the generator ends
WatchFailed(w) == [Emit(w, "error", <<>>) EXCEPT !.pc = "closed"]

\* fault: every change is sent as the suffix after the last count
AlwaysGrew(current_char_count, last_char_count) == TRUE

\* "if current_char_count > last_char_count"
Grew(current_char_count, last_char_count) == current_char_count > last_char_count

\* "if not os.path.exists(filepath): return 404", else the generator is made
WatchBegin(names) ==
    /\ watch.pc = "idle"
    /\ \E name \in names :
        LET filename == SecureFilename(name)
        IN  watch' = IF filename \in DOMAIN files
                     THEN [IdleWatch EXCEPT !.pc = "open_read", !.filename = filename]
                     ELSE IdleWatch
    /\ UNCHANGED <<registry, service, chat, mtime>>

\* "content = f.read(); last_char_count = len(content)"
WatchOpenRead ==
    /\ watch.pc = "open_read"
    /\ watch' = IF watch.filename \in DOMAIN files
                THEN [watch EXCEPT !.pc = "open_mtime",
                                   !.content = files[watch.filename],
                                   !.last_char_count = Len(files[watch.filename])]
                ELSE WatchFailed(watch)
    /\ UNCHANGED <<registry, service, chat, mtime>>

\* "last_mtime = os.path.getmtime(filepath)", then the initial "full" event
WatchOpenMtime ==
    /\ watch.pc = "open_mtime"
    /\ watch' = IF watch.filename \in DOMAIN files
                THEN [Emit(watch, "full", watch.content)
                        EXCEPT !.pc = "sleep", !.last_mtime = mtime[watch.filename]]
                ELSE WatchFailed(watch)
    /\ UNCHANGED <<registry, service, chat, mtime>>

\* "time.sleep(1)", then "if not os.path.exists(filepath)"; began is history:
\* the time of the file's last write when this poll begins
WatchExists ==
    /\ watch.pc = "sleep"
    /\ watch' = IF watch.filename \in DOMAIN files
                THEN [watch EXCEPT !.pc = "poll_mtime", !.began = mtime[watch.filename]]
                ELSE [Emit(watch, "deleted", <<>>) EXCEPT !.pc = "closed"]
    /\ UNCHANGED <<registry, service, chat, mtime>>

\* "current_mtime = os.path.getmtime(filepath); if current_mtime > last_mtime"
WatchMtime ==
    /\ watch.pc = "poll_mtime"
    /\ watch' = IF watch.filename \in DOMAIN files
                THEN [watch EXCEPT !.current_mtime = mtime[watch.filename],
                                   !.pc = IF mtime[watch.filename] > watch.last_mtime
                                          THEN "poll_read" ELSE "heartbeat"]
                ELSE WatchFailed(watch)
    /\ UNCHANGED <<registry, service, chat, mtime>>

\* the file is read again and an "append" or a "full" event is sent
WatchRead ==
    /\ watch.pc = "poll_read"
    /\ watch' =
        IF watch.filename \in DOMAIN files
        THEN LET content == files[watch.filename]
                 current_char_count == Len(content)
                 new_content == SubSeq(content, watch.last_char_count + 1, current_char_count)
                 sent == IF Grew(current_char_count, watch.last_char_count)
                         THEN Emit(watch, "append", new_content)
                         ELSE Emit(watch, "full", content)
             IN  [sent EXCEPT !.pc = "heartbeat", !.content = content,
                              !.last_char_count = current_char_count,
                              !.last_mtime = watch.current_mtime]
        ELSE WatchFailed(watch)
    /\ UNCHANGED <<registry, service, chat, mtime>>

\* "yield ': heartbeat'": the poll is over
WatchHeartbeat ==
    /\ watch.pc = "heartbeat"
    /\ watch' = [watch EXCEPT !.pc = "sleep"]
    /\ UNCHANGED <<registry, service, chat, mtime>>

\* "except GeneratorExit: break": the client left, or the generator has ended
WatchClose ==
    /\ watch.pc \in {"sleep", "closed"}
    /\ watch' = IdleWatch
    /\ UNCHANGED <<registry, service, chat, mtime>>

WatchStep ==
    \/ WatchOpenRead \/ WatchOpenMtime \/ WatchExists \/ WatchMtime
    \/ WatchRead \/ WatchHeartbeat \/ WatchClose

\* One watcher and one writer: the requests that write a.txt (a streaming
\* session, an upload over the file) are served one at a time while the
\* watcher polls at any moment between their steps.
WatchNames == {"a.txt"}
WatchBatches == {b \in Batches : Len(b) = 1 /\ b[1].filename = "a.txt"}

NextWatch ==
    \/ WatchBegin(WatchNames)
    \/ WatchStep
    \/ \E w \in SerialWorkers :
        \/ AllIdle /\ BeginStart(w, WatchNames)
        \/ AllIdle /\ BeginAppend(w, ConcTexts)
        \/ AllIdle /\ BeginAbort(w)
        \/ AllIdle /\ BeginPublicUpload(w, WatchBatches)
        \/ StartLoad(w) \/ StartExists(w) \/ StartCreate(w) \/ StartSave(w)
        \/ AppendLoad(w) \/ AppendSize(w) \/ AppendLock(w) \/ AppendWrite(w)
        \/ AppendUnlock(w) \/ AppendSave(w) \/ AppendRead(w)
        \/ AbortLoad(w) \/ AbortRemove(w) \/ AbortSave(w)
        \/ UploadCheck(w) \/ UploadStore(w) \/ UploadLoad(w) \/ UploadSave(w)
        \/ Return(w)

SpecWatch == Init /\ [][NextWatch]_vars

\* ----------------------------------------------- claims on the live tail ---
\* a data event of the watcher has been sent
Emitted == watch.type \in {"full", "append"}

\* C31: the first event of a watch subscription is the file's full content, and
\* after every event the watcher's reconstructed copy (a full event replaces
\* it, an append event is added at its end) equals the file content read at
\* that poll: a suffix is sent only when the file grew by pure append, the
\* full content when it shrank or was rewritten.
C31_CopyFollowsFile ==
    Emitted =>
        /\ watch.events = 1 => watch.type = "full"
        /\ watch.copy = watch.content

\* ------------------------------------- claims on concurrent registry calls ---
\* worker a has answered an append and worker b a finalize or abort of the
\* same session, both with success
AppendAndClose(a, b) ==
    /\ a # b
    /\ Done(a, "append") /\ wk[a].resp.status = 200
    /\ wk[b].pc = "done" /\ wk[b].req.op \in {"finalize", "abort"}
    /\ wk[b].resp.status = 200
    /\ wk[a].req.session_id = wk[b].req.session_id

\* C32: when an append and a finalize or abort of the same session have both
\* completed, the session is absent from the session map and, for finalize,
\* the file name is in the base corpus typed "transcript": an append in
\* flight neither re-creates the closed session nor reverts the placement.
C32_CloseSurvivesAppend ==
    \A a, b \in Workers :
        AppendAndClose(a, b) =>
            LET f == wk[b].filename
            IN  /\ f \notin DOMAIN cfg.streaming_sessions
                /\ wk[b].req.op = "finalize" =>
                    /\ InList(cfg.base_context, f)
                    /\ f \in DOMAIN cfg.base_context_types
                    /\ cfg.base_context_types[f] = "transcript"

\* Two clients, each on its own worker, start and finalize sessions for the
\* two file names; their steps interleave in any order.
NextPair ==
    \E w \in Workers :
        \/ BeginStart(w, FileNames)
        \/ BeginFinalize(w)
        \/ StartLoad(w) \/ StartExists(w) \/ StartCreate(w) \/ StartSave(w)
        \/ FinalizeLoad(w) \/ FinalizeRead(w) \/ FinalizeSave(w)
        \/ Return(w)

SpecPair == Init /\ [][NextPair]_vars

\* worker w has answered a start (of a new session) or a finalize with
\* success, and no later call has changed the session of its file name since:
\* the session it started was not closed, the file it finalized was not
\* started again
Stands(w) ==
    /\ wk[w].pc = "done" /\ wk[w].resp.status = 200
    /\ CASE wk[w].req.op = "start" ->
                ~wk[w].resp.resumed /\ wk[w].resp.session_id \notin closed
         [] wk[w].req.op = "finalize" ->
                \A s \in issued : s[2] = wk[w].filename => s[1] <= wk[w].req.session_id
         [] OTHER -> FALSE

\* what the call of worker w has changed in the maps
Reflected(w) ==
    LET f == wk[w].filename
    IN  IF wk[w].req.op = "start"
        THEN /\ f \in DOMAIN cfg.streaming_sessions
             /\ cfg.streaming_sessions[f].session_id = wk[w].resp.session_id
        ELSE /\ f \notin DOMAIN cfg.streaming_sessions
             /\ InList(cfg.base_context, f)

\* C33: when two successful calls for different file names that change the
\* session and placement maps have run concurrently, the maps reflect both:
\* the save of one does not lose or undo the change of the other.
C33_BothChangesKept ==
    \A a, b \in Workers :
        (a # b /\ Stands(a) /\ Stands(b) /\ wk[a].filename # wk[b].filename) =>
            Reflected(a) /\ Reflected(b)

\* C34: in every reachable state, under any interleaving of append requests,
\* also of concurrent appenders to the same session, the size of a streaming
\* file does not exceed the total-file cap.
C34_FileWithinCap ==
    \A f \in DOMAIN files : ByteLen(files[f]) <= MaxFileBytes

\* One watcher and one appender: a.txt has an open session (the state after
\* the two starts), the client appends and the watcher polls at any moment
\* between the steps of the append.
NextTail ==
    \/ WatchBegin(WatchNames)
    \/ WatchStep
    \/ \E w \in SerialWorkers :
        \/ BeginAppend(w, ConcTexts)
        \/ AppendLoad(w) \/ AppendSize(w) \/ AppendLock(w) \/ AppendWrite(w)
        \/ AppendUnlock(w) \/ AppendSave(w) \/ AppendRead(w)
        \/ Return(w)

SpecTail == InitAppend /\ [][NextTail]_vars

\* a poll of the watcher has ended, the file was not written since the poll
\* began and no append is writing: the appends had stopped before this poll
PollAfterLastWrite ==
    /\ watch.pc = "heartbeat"
    /\ watch.filename \in DOMAIN files
    /\ mtime[watch.filename] = watch.began
    /\ \A w \in Workers : wk[w].pc # "append_write"

\* C35: every appended text is delivered to a connected watcher within one
\* poll: at the end of a poll that began after the last write, the watcher's
\* reconstructed copy equals the file content, also when an append landed
\* between the watcher's initial read of the content and its initial read of
\* the modification time.
C35_DeliveredWithinOnePoll ==
    PollAfterLastWrite => watch.copy = files[watch.filename]

\* ------------------------------------ EmbeddingService.search_context ---
\* chat.py calls search_context(message) with top_k left to its default
SearchBegin ==
    /\ sq.pc = "idle"
    /\ sq' = [IdleSearch EXCEPT !.pc = "init"]
    /\ UNCHANGED <<registry, settings, svc, ck, index, rx, asm, chat, tailing>>

\* "if not self.embeddings_initialized: self.initialize()": initialize
\* re-raises what it caught, and the exception leaves search_context
SearchInit ==
    /\ sq.pc = "init"
    /\ IF svc.embeddings_initialized
       THEN /\ sq' = [sq EXCEPT !.pc = "count"]
            /\ UNCHANGED <<svc, index>>
       ELSE \E ok \in BOOLEAN :
            /\ svc' = [svc EXCEPT
                        !.chunk_size = SettingsGet("chunk_size", ClassChunkSize),
                        !.chunk_overlap = SettingsGet("chunk_overlap", DefaultChunkOverlap),
                        !.chunks_to_retrieve = SettingsGet("chunks_to_retrieve", DefaultRetrieve),
                        !.provider = SettingsGet("embedding_provider", "gemini"),
                        !.collection = IF ok THEN "live" ELSE @,
                        !.embeddings_initialized = ok]
            /\ index' = IF ok THEN [index EXCEPT !.exists = TRUE] ELSE index
            /\ sq' = [sq EXCEPT !.pc = IF ok THEN "count" ELSE "raised"]
    /\ UNCHANGED <<registry, settings, ck, rx, asm, chat, tailing>>

\* collection.count(): raises on the handle of a collection that was deleted
CollectionCount(handle, store) ==
    IF handle = "live" /\ store.exists
    THEN [raised |-> FALSE, n |-> Cardinality(store.items)]
    ELSE [raised |-> TRUE, n |-> 0]

\* "if ... self.collection.count() == 0: return ''", before the try;
\* then "top_k = self.chunks_to_retrieve"
SearchCount ==
    /\ sq.pc = "count"
    /\ LET count == CollectionCount(svc.collection, index)
       IN  sq' = IF count.raised THEN [sq EXCEPT !.pc = "raised"]
                 ELSE IF count.n = 0 THEN [sq EXCEPT !.pc = "returned"]
                 ELSE [sq EXCEPT !.pc = "encode", !.top_k = svc.chunks_to_retrieve]
    /\ UNCHANGED <<registry, settings, svc, ck, index, rx, asm, chat, tailing>>

\* "query_embedding = self.encode(query)" inside the try: the embedding
\* backend answers or raises, and "except Exception: return ''"
SearchEncode ==
    /\ sq.pc = "encode"
    /\ \E ok \in BOOLEAN :
        sq' = [sq EXCEPT !.pc = IF ok THEN "query" ELSE "returned"]
    /\ UNCHANGED <<registry, settings, svc, ck, index, rx, asm, chat, tailing>>

\* "self.collection.query(..., n_results=min(top_k, self.collection.count()))"
\* and the formatting of the documents found, all inside the try
SearchQuery ==
    /\ sq.pc = "query"
    /\ LET count == CollectionCount(svc.collection, index)
           n_results == IF sq.top_k < count.n THEN sq.top_k ELSE count.n
       IN  IF count.raised
           THEN sq' = [sq EXCEPT !.pc = "returned"]
           ELSE \E hits \in SUBSET index.items :
                /\ Cardinality(hits) = n_results
                /\ \E order \in Orderings(hits) :
                    sq' = [sq EXCEPT !.pc = "returned", !.results = hits,
                                     !.context = SearchText(order),
                                     !.stored = index.items]
    /\ UNCHANGED <<registry, settings, svc, ck, index, rx, asm, chat, tailing>>

\* the caller has the context string, or the exception
SearchDone ==
    /\ sq.pc \in {"returned", "raised"}
    /\ sq' = IdleSearch
    /\ UNCHANGED <<registry, settings, svc, ck, index, rx, asm, chat, tailing>>

\* Searches of chat turns while the index is filled, dropped and filled again
\* by reindex requests: the steps of a search and of a reindex interleave.
SearchBatches == {<<[filename |-> "a.txt", content |-> <<"u">>]>>}
SearchTargets == {"vectorized:books"}

NextSearch ==
    \/ \E w \in SerialWorkers :
        \/ AllIdle /\ rx.pc = "idle" /\ sq.pc = "idle"
                   /\ BeginUpload(w, SearchBatches, SearchTargets)
        \/ UploadCheck(w) \/ UploadStore(w) \/ UploadLoad(w) \/ UploadSave(w)
        \/ Return(w)
    \/ Initialize
    \/ Restart
    \/ AllIdle /\ ReindexBegin
    \/ ReindexClear \/ ReindexCreate \/ ReindexLoad \/ ReindexFile \/ ReindexFinish
    \/ ReindexDone
    \/ SearchBegin \/ SearchInit \/ SearchCount \/ SearchEncode \/ SearchQuery
    \/ SearchDone

SpecSearch == Init /\ [][NextSearch]_vars

\* ------------------------------------- claims on chunking and searching ---
\* C36: for every text and every setting with chunk_overlap < chunk_size
\* that the settings operation accepts, chunk_text terminates: each window
\* starts at a strictly greater offset than the one before it, also after a
\* window that was shrunk to a period or line break.
C36_WindowsAdvance ==
    (ck.pc \in {"loop", "returned"} /\ svc.chunk_overlap < svc.chunk_size) =>
        LET c == ck.chunks
            n == Len(c)
        IN  /\ \A k \in 1..(n - 1) : c[k + 1].start > c[k].start
            /\ (ck.pc = "loop" /\ n > 0) => ck.start > c[n].start

\* C37: search never returns an error or corrupted results: on an empty
\* index it returns empty, and while a reindex drops and refills the index or
\* when the embedding backend fails it returns empty or only chunks that are
\* stored in the index at that moment.
C37_SearchNeverFails ==
    /\ sq.pc # "raised"
    /\ sq.pc = "returned" =>
        /\ sq.results \subseteq sq.stored
        /\ sq.results = {} => sq.context = <<>>

\* ----------------------------------------- claims on the end of a turn ---
\* the stream of the turn was relayed to its end with the client connected
RelayedToEnd == turn.pc = "closed" /\ turn.connected

\* C38: a thread never ends broken: after every chat turn whose stream is
\* relayed to its end, also after a network failure, a non-success response or
\* a provider that emits no text, the last persisted message of the thread is
\* an assistant message.
C38_ThreadEndsWithAssistant ==
    RelayedToEnd =>
        /\ db.messages # <<>>
        /\ db.messages[Len(db.messages)].role = "assistant"

\* ------------------------------------------------ claims on the settings ---
\* a chunk_text call of a reindex begins in this step
ChunkCallBegins == ck.pc = "idle" /\ ck'.pc = "loop"

\* C39: settings are read again at every call and never cached: once chunk
\* size and chunk overlap were changed by the settings operation, every call
\* that begins afterwards, whatever was called before the change, chunks
\* with the values the settings table holds.
C39_SettingsReadPerCall ==
    [][ChunkCallBegins =>
        /\ "chunk_size" \in DOMAIN settings => svc.chunk_size = settings["chunk_size"]
        /\ "chunk_overlap" \in DOMAIN settings =>
                svc.chunk_overlap = settings["chunk_overlap"]]_vars

\* ------------------------------------------- claims on the input estimate ---
\* C40: when the provider reports no usage for a stream that emitted text,
\* the estimated input tokens are max(1, c // 4), c being the number of
\* characters of the messages actually sent, in which the system text occurs
\* once (the adapter has put it in front of the first user turn).
C40_InputEstimateCountsOnce ==
    px.pc = "estimated" =>
        px.input_tokens = Estimate(ContentLen(px.formatted_messages))

====
